---- MODULE Spec2Model ----
(***************************************************************************)
(* FARS (levskiy0/FARS): on-demand image variant server.                   *)
(*                                                                         *)
(* Specifications over one set of variables:                               *)
(*   SpecLock  internal/locker KeyedLocker alone, callers looping          *)
(*   Spec      concurrent handleResize requests on one cache path, with    *)
(*             the keyed locker, Manager.Write's syscalls and a sweeper    *)
(*   SpecSeq   whole requests, touches, clock ticks and sweeps, one at a   *)
(*             time, against two deployments that differ only in           *)
(*             cache.memory_cache_size                                     *)
(*   SpecPath  Config.ResolvePaths / Config.CachePath on bounded strings   *)
(*   SpecFront one request through handleResize: geometry, extension,      *)
(*             source candidates, build                                    *)
(*   SpecCond  tryServeFromCache: conditional headers against the cache    *)
(*             files of two variants                                       *)
(*   SpecSweep Manager.StartCleanup: the sweeper goroutine, its ticker and *)
(*             the cancellation of its context, with fairness              *)
(*   SpecFair  Spec under fair scheduling of the handler goroutines        *)
(*   SpecBuild one request's locked build section, Manager.Write step by   *)
(*             step with I/O faults, against one sweep that also removes   *)
(*             emptied directories                                         *)
(*   SpecMem   the Manager's calls (Write, IsFresh, LoadMemory, the        *)
(*             sweeper's drop) on a memoryCache with its key map and       *)
(*             recency list, under every validated configuration           *)
(*   SpecHot   hotCache alone: mark, protect and remove on keys and sizes  *)
(*             up to one byte above storage_hot_cache_size                 *)
(*   SpecKey   two requests on one rewrite chain and one base_dir: the     *)
(*             geometry, format, source and cache path each resolves to    *)
(* Each specification leaves the variables of the others unchanged.        *)
(***************************************************************************)
EXTENDS Integers, Sequences, FiniteSets, TLC

VARIABLES
    \* --- KeyedLocker (internal/locker/locks.go) ---
    locks,      \* k.locks: key -> mutex id, 0 when the key has no entry
    mheld,      \* mutex id -> the caller holding it, 0 when unlocked
    mref,       \* caller -> the *sync.Mutex it got from get(), 0 when none
    lkey,       \* caller -> the key it passed to Lock, 0 when none
    lpc         \* caller -> position in Lock / the release closure

lockVars == <<locks, mheld, mref, lkey, lpc>>

VARIABLES
    \* --- concurrent requests on one cache path (Spec) ---
    pc,         \* request -> position in Handler.handleResize
    origInfo,   \* request -> originalInfo.ModTime() from its os.Stat
    payload,    \* request -> bytes returned by processor.Resize, 0 when none
    fd,         \* request -> inode its os.WriteFile has open, 0 when none
    resp,       \* request -> the response it sent (NoResp before)
    tmpName,    \* inode named cachePath+".tmp", 0 when the name is absent
    finalName,  \* inode named cachePath, 0 when the name is absent
    ino,        \* inode -> [content, mtime]; content 0 is the empty file
    orig,       \* the original: [mtime, content]
    now,        \* wall clock
    encCount,   \* number of processor.Resize invocations
    faults,     \* number of injected encoder / write failures
    touched,    \* the original's mtime was changed after start
    swept,      \* the sweeper removed the cache file at least once
    spc,        \* sweeper: "idle" or "remove" (removeCacheFile pending)
    written     \* payloads handed to Manager.Write so far

conVars == <<pc, origInfo, payload, fd, resp, tmpName, finalName, ino, orig,
             now, encCount, faults, touched, swept, spc, written>>

VARIABLES
    \* --- whole operations, one at a time, on two deployments (SpecSeq) ---
    sclock,     \* wall clock
    cfgTTL,     \* cache.ttl of both deployments (0 disables it)
    base,       \* base_dir: file -> [exists, mtime, content]
    dstate,     \* deployment -> [cache, mem, hot]: cache_dir and the Manager
    lastOp,     \* the last operation, its responses and the state before it
    lastGet,    \* request path -> responses of its last GET (per deployment)
    quiet,      \* request path -> no touch, delete or sweep since that GET
    pendLater,  \* request path -> its original was touched to a later mtime
                \*   while its cache entry was fresh, and no GET since
    pendNewer   \* ... and that mtime is strictly later than the entry's

seqVars == <<sclock, cfgTTL, base, dstate, lastOp, lastGet, quiet, pendLater,
             pendNewer>>

VARIABLES
    \* --- path resolution of one request (SpecPath) ---
    prules,     \* cfg.Rewrites, the compiled rewrite chain
    pin,        \* the string handed to ResolvePaths
    pres,       \* what ResolvePaths returned
    pcp,        \* what CachePath returned
    ppc         \* "start", "resolved", "cached" or "400"

pathVars == <<prules, pin, pres, pcp, ppc>>

VARIABLES
    \* --- one request through the whole of handleResize (SpecFront) ---
    rgeo,       \* c.Param("geometry"), a string
    rpath,      \* c.Param("filepath") without its leading slash, a name
    rstat,      \* candidate index -> what os.Stat answers for it
    rout        \* the answer and what the handler did on the way

frontVars == <<rgeo, rpath, rstat, rout>>

VARIABLES
    \* --- tryServeFromCache on the files of cache_dir (SpecCond) ---
    cfile,      \* cache path -> [present, payload, mtime]
    cinm,       \* the If-None-Match header of the client, <<>> when absent
    cims,       \* the If-Modified-Since header of the client
    cresp       \* cache path -> the answer to the last GET of it

condVars == <<cfile, cinm, cims, cresp>>

VARIABLES
    \* --- the sweeper goroutine of Manager.StartCleanup (SpecSweep) ---
    wInterval,  \* cfg.Cache.CleanupInterval
    wcancel,    \* ctx has been cancelled
    wpc,        \* "unstarted", "none" (no goroutine), "first", "walk",
                \*   "visit", "select" or "done"
    wlist,      \* the files the running WalkDir has still to visit
    wfile,      \* cache file -> "absent", "fresh" or "stale"
    wchan,      \* ticks buffered in ticker.C (capacity 1)
    wfired,     \* times the ticker's timer fired
    wsweeps,    \* calls of cleanupOnce so far
    wtaken,     \* ticks received from ticker.C so far
    wremoved,   \* cache files removed so far
    wcancelAt,  \* where the sweeper was when ctx was cancelled
    wlate       \* the removals made after the cancellation

sweepVars == <<wInterval, wcancel, wpc, wlist, wfile, wchan, wfired, wsweeps,
               wtaken, wremoved, wcancelAt, wlate>>

VARIABLES
    \* --- one build against one sweep, with directories (SpecBuild) ---
    bdep,       \* the deployment: 1 without, 2 with the memory tier
    bfault,     \* the I/O fault that strikes the request or the sweep,
                \*   "none" for none
    droot,      \* cache_dir exists
    dsub,       \* cache_dir/<geometry> exists
    dfile,      \* cachePath: [state, content], state "absent", "fresh"
                \*   or "stale" (what IsFresh and the sweeper would find)
    dtmp,       \* cachePath+".tmp": [exists, content]
    bmm,        \* [mem, hot]: memory tier and hot-set of the Manager
    bpc,        \* the request's position in handleResize / Manager.Write
    bresp,      \* the request's answer
    bwrite,     \* what Manager.Write returned: "", "ok" or the failed step
    bpre,       \* [file, mm] when Manager.Write was entered
    swpc,       \* the sweeper's position in cleanupOnce
    swdirs,     \* the directories its walk has collected
    swlist,     \* the files its walk has still to visit
    swacted     \* the sweeper has removed a file or a directory

buildVars == <<bdep, bfault, droot, dsub, dfile, dtmp, bmm, bpc, bresp,
               bwrite, bpre, swpc, swdirs, swlist, swacted>>

VARIABLES
    \* --- the Manager's memory tier, call by call (SpecMem) ---
    tcfg,       \* [limit, chunk, ttl, hot]: memory_cache_size,
                \*   max_memory_chunk, cache.ttl, storage_hot_cache_size
    tman,       \* the Manager: [memory, hot]
    tnow,       \* the clock
    tres        \* the last call: [op, key, ok, evicted]

memVars == <<tcfg, tman, tnow, tres>>

VARIABLES
    \* --- the hot-set alone, call by call (SpecHot) ---
    hset,       \* the hotCache: [order, used], most recently used first
    hres        \* the last call: [op, key, size, had, ok]

hotVars == <<hset, hres>>

VARIABLES
    \* --- two requests and the cache paths they resolve to (SpecKey) ---
    krules,     \* cfg.Rewrites
    kbase,      \* the files under base_dir
    kout        \* request slot -> what handleResize derived for it

keyVars == <<krules, kbase, kout>>

vars == <<lockVars, conVars, seqVars, pathVars, frontVars, condVars,
          sweepVars, buildVars, memVars, hotVars, keyVars>>

\* What the actions of one specification leave alone.
lockOthers == <<conVars, seqVars, pathVars, frontVars, condVars, sweepVars,
                buildVars, memVars, hotVars, keyVars>>
conOthers == <<seqVars, pathVars, frontVars, condVars, sweepVars, buildVars,
               memVars, hotVars, keyVars>>
seqOthers == <<lockVars, conVars, pathVars, frontVars, condVars, sweepVars,
               buildVars, memVars, hotVars, keyVars>>
pathOthers == <<lockVars, conVars, seqVars, frontVars, condVars, sweepVars,
                buildVars, memVars, hotVars, keyVars>>
frontOthers == <<lockVars, conVars, seqVars, pathVars, condVars, sweepVars,
                 buildVars, memVars, hotVars, keyVars>>
condOthers == <<lockVars, conVars, seqVars, pathVars, frontVars, sweepVars,
                buildVars, memVars, hotVars, keyVars>>
sweepOthers == <<lockVars, conVars, seqVars, pathVars, frontVars, condVars,
                 buildVars, memVars, hotVars, keyVars>>
buildOthers == <<conVars, seqVars, pathVars, frontVars, condVars, sweepVars,
                 memVars, hotVars, keyVars>>
memOthers == <<lockVars, conVars, seqVars, pathVars, frontVars, condVars,
               sweepVars, buildVars, hotVars, keyVars>>
hotOthers == <<lockVars, conVars, seqVars, pathVars, frontVars, condVars,
               sweepVars, buildVars, memVars, keyVars>>
keyOthers == <<lockVars, conVars, seqVars, pathVars, frontVars, condVars,
               sweepVars, buildVars, memVars, hotVars>>

\* ------------------------------------------------------------------ bounds
NumProcs == 3
NumKeys == 2

Procs == 1..NumProcs
Keys == 1..NumKeys
MutexIds == 1..NumProcs

\* ------------------------------------------------------ generic helpers
Min(S) == CHOOSE x \in S : \A y \in S : x <= y

\* ===================================================================
\* KeyedLocker
\* ===================================================================

\* A mutex object is live while the table or some caller references it.
LiveMutexes == {locks[k] : k \in DOMAIN locks} \cup {mref[c] : c \in Procs}

\* &sync.Mutex{}: a fresh object, distinct from every live one.
NewMutex == Min(MutexIds \ LiveMutexes)

\* KeyedLocker.get: under k.mu, return the table's mutex or create one.
get(c, key) ==
    /\ IF locks[key] # 0
       THEN /\ mref' = [mref EXCEPT ![c] = locks[key]]
            /\ locks' = locks
       ELSE /\ mref' = [mref EXCEPT ![c] = NewMutex]
            /\ locks' = [locks EXCEPT ![key] = NewMutex]

\* mutex.Lock(): blocks until the mutex is free.
mutexLock(c) ==
    /\ mheld[mref[c]] = 0
    /\ mheld' = [mheld EXCEPT ![mref[c]] = c]

\* Mutant: the release closure leaves the mutex locked.
mutexUnlockSkipped(c) ==
    mheld' = mheld

\* mutex.Unlock(), the first statement of the release closure.
mutexUnlock(c) ==
    mheld' = [mheld EXCEPT ![mref[c]] = 0]

\* Mutant: release leaves the table as it is.
releaseKeepsEntry(c, key) ==
    /\ locks' = locks
    /\ mref' = [mref EXCEPT ![c] = 0]

\* KeyedLocker.release: under k.mu, delete the entry if it is still this mutex.
release(c, key) ==
    /\ locks' = IF locks[key] # 0 /\ locks[key] = mref[c]
                THEN [locks EXCEPT ![key] = 0]
                ELSE locks
    /\ mref' = [mref EXCEPT ![c] = 0]

LockerInit ==
    /\ locks = [k \in Keys |-> 0]
    /\ mheld = [m \in MutexIds |-> 0]
    /\ mref = [c \in Procs |-> 0]

\* --- SpecLock: callers looping  Lock(k) ... release() ---
LockEnter(c, k) ==
    /\ lpc[c] = "idle"
    /\ get(c, k)
    /\ lkey' = [lkey EXCEPT ![c] = k]
    /\ lpc' = [lpc EXCEPT ![c] = "waiting"]
    /\ UNCHANGED <<mheld, lockOthers>>

LockAcquire(c) ==
    /\ lpc[c] = "waiting"
    /\ mutexLock(c)
    /\ lpc' = [lpc EXCEPT ![c] = "holding"]
    /\ UNCHANGED <<locks, mref, lkey, lockOthers>>

ReleaseUnlock(c) ==
    /\ lpc[c] = "holding"
    /\ mutexUnlock(c)
    /\ lpc' = [lpc EXCEPT ![c] = "releasing"]
    /\ UNCHANGED <<locks, mref, lkey, lockOthers>>

ReleaseDelete(c) ==
    /\ lpc[c] = "releasing"
    /\ release(c, lkey[c])
    /\ lkey' = [lkey EXCEPT ![c] = 0]
    /\ lpc' = [lpc EXCEPT ![c] = "idle"]
    /\ UNCHANGED <<mheld, lockOthers>>

\* ===================================================================
\* Shared pure functions of the cache and the handler
\* ===================================================================

\* Mutant: IsFresh without the comparison against the original's mtime.
FreshPredNoOrig(exists, cmtime, omtime, ttl, clock) ==
    /\ exists
    /\ ~(ttl > 0 /\ clock - cmtime > ttl)

\* Mutant: IsFresh calling an entry stale as soon as its age reaches the TTL.
FreshPredEarlyTTL(exists, cmtime, omtime, ttl, clock) ==
    /\ exists
    /\ ~(omtime # 0 /\ omtime > cmtime)
    /\ ~(ttl > 0 /\ clock - cmtime >= ttl)

\* Manager.IsFresh's decision, given the os.Stat result of the cache file
\* (exists, cmtime), the original's mtime recorded by the request (0 is the
\* zero time), the configured TTL (0 disables it) and the clock.
FreshPred(exists, cmtime, omtime, ttl, clock) ==
    /\ exists
    /\ ~(omtime # 0 /\ omtime > cmtime)
    /\ ~(ttl > 0 /\ clock - cmtime > ttl)

\* processor.Resize: the encoded bytes are a function of the source bytes
\* (geometry, format and quality are fixed per cache path).
Resize(source) == 10 + source

\* buildContentETag: quoted hex SHA-256 of the payload.
\* Mutant: the tag does not depend on the bytes.
buildContentETagFixed(body) == <<"sha256", <<>>>>

buildContentETag(body) == <<"sha256", body>>

NoResp == [status |-> 0, body |-> 0, etag |-> <<>>, cached |-> FALSE]

\* tryServeFromCache's 200 answer for the bytes read from the cache file.
Served(body, cachedFlag) ==
    [status |-> 200, body |-> body, etag |-> buildContentETag(body),
     cached |-> cachedFlag]

\* respondError.
Failed(code) == [status |-> code, body |-> 0, etag |-> <<>>, cached |-> FALSE]

\* ===================================================================
\* Spec: concurrent handleResize requests for one cache path
\*   (cache.ttl = 0; the memory tier and the hot-set are not read by
\*    handleResize and are left to SpecSeq)
\* ===================================================================
MaxFaults == 1
MaxTouch == 1

CacheKey == 1   \* the cache path all requests of Spec resolve to

ConInit ==
    /\ pc = [r \in Procs |-> "start"]
    /\ origInfo = [r \in Procs |-> 0]
    /\ payload = [r \in Procs |-> 0]
    /\ fd = [r \in Procs |-> 0]
    /\ resp = [r \in Procs |-> NoResp]
    /\ tmpName = 0
    /\ finalName = 0
    /\ ino = [i \in Procs |-> [content |-> 0, mtime |-> 0]]
    /\ orig = [mtime |-> 1, content |-> 1]
    /\ now = 1
    /\ encCount = 0
    /\ faults = 0
    /\ touched = FALSE
    /\ swept = FALSE
    /\ spc = "idle"
    /\ written = {}

\* Manager.IsFresh(cachePath, originalInfo) as request r evaluates it.
IsFresh(r) ==
    FreshPred(finalName # 0,
              IF finalName # 0 THEN ino[finalName].mtime ELSE 0,
              origInfo[r], 0, now)

\* handler.go:116  os.Stat(candidatePath)
HStat(r) ==
    /\ pc[r] = "start"
    /\ origInfo' = [origInfo EXCEPT ![r] = orig.mtime]
    /\ pc' = [pc EXCEPT ![r] = "probe1"]
    /\ UNCHANGED <<conOthers,
                   lockVars, payload, fd, resp, tmpName, finalName, ino, orig,
                   now, encCount, faults, touched, swept, spc, written>>

\* handler.go:148  first IsFresh, before the lock
HProbe1(r) ==
    /\ pc[r] = "probe1"
    /\ pc' = [pc EXCEPT ![r] = IF IsFresh(r) THEN "serve1" ELSE "lock"]
    /\ UNCHANGED <<conOthers,
                   lockVars, origInfo, payload, fd, resp, tmpName, finalName,
                   ino, orig, now, encCount, faults, touched, swept, spc,
                   written>>

\* handler.go:149-152  tryServeFromCache: open + read, or false when the
\* file cannot be opened
HServe1(r) ==
    /\ pc[r] = "serve1"
    /\ IF finalName # 0
       THEN /\ resp' = [resp EXCEPT ![r] = Served(ino[finalName].content, TRUE)]
            /\ pc' = [pc EXCEPT ![r] = "done"]
       ELSE /\ resp' = resp
            /\ pc' = [pc EXCEPT ![r] = "lock"]
    /\ UNCHANGED <<conOthers,
                   lockVars, origInfo, payload, fd, tmpName, finalName, ino,
                   orig, now, encCount, faults, touched, swept, spc, written>>

\* handler.go:155  h.locks.Lock(cachePath): get ...
HLock(r) ==
    /\ pc[r] = "lock"
    /\ get(r, CacheKey)
    /\ pc' = [pc EXCEPT ![r] = "wait"]
    /\ UNCHANGED <<conOthers,
                   mheld, lkey, lpc, origInfo, payload, fd, resp, tmpName,
                   finalName, ino, orig, now, encCount, faults, touched,
                   swept, spc, written>>

\* ... then mutex.Lock()
HAcquire(r) ==
    /\ pc[r] = "wait"
    /\ mutexLock(r)
    /\ pc' = [pc EXCEPT ![r] = "probe2"]
    /\ UNCHANGED <<conOthers,
                   locks, mref, lkey, lpc, origInfo, payload, fd, resp,
                   tmpName, finalName, ino, orig, now, encCount, faults,
                   touched, swept, spc, written>>

\* Mutant: no double-checked probe after taking the lock.
ReprobeSkipped(r) == "build"

\* What the re-probe under the lock decides (handler.go:157).
Reprobe(r) == IF IsFresh(r) THEN "serve2" ELSE "build"

HProbe2(r) ==
    /\ pc[r] = "probe2"
    /\ pc' = [pc EXCEPT ![r] = Reprobe(r)]
    /\ UNCHANGED <<conOthers,
                   lockVars, origInfo, payload, fd, resp, tmpName, finalName,
                   ino, orig, now, encCount, faults, touched, swept, spc,
                   written>>

\* handler.go:158-161
HServe2(r) ==
    /\ pc[r] = "serve2"
    /\ IF finalName # 0
       THEN /\ resp' = [resp EXCEPT ![r] = Served(ino[finalName].content, TRUE)]
            /\ pc' = [pc EXCEPT ![r] = "unlock"]
       ELSE /\ resp' = resp
            /\ pc' = [pc EXCEPT ![r] = "build"]
    /\ UNCHANGED <<conOthers,
                   lockVars, origInfo, payload, fd, tmpName, finalName, ino,
                   orig, now, encCount, faults, touched, swept, spc, written>>

\* handler.go:164-183  os.ReadFile(originalPath) and processor.Resize
HEncode(r) ==
    /\ pc[r] = "build"
    /\ encCount' = encCount + 1
    /\ \/ /\ payload' = [payload EXCEPT ![r] = Resize(orig.content)]
          /\ pc' = [pc EXCEPT ![r] = "wopen"]
          /\ UNCHANGED <<resp, faults>>
       \/ /\ faults < MaxFaults
          /\ faults' = faults + 1
          /\ resp' = [resp EXCEPT ![r] = Failed(500)]
          /\ pc' = [pc EXCEPT ![r] = "unlock"]
          /\ UNCHANGED payload
    /\ UNCHANGED <<conOthers,
                   lockVars, origInfo, fd, tmpName, finalName, ino, orig, now,
                   touched, swept, spc, written>>

\* manager.go:83-87  EnsureParent, then os.WriteFile's
\* open(tmp, O_WRONLY|O_CREATE|O_TRUNC): the inode already named tmp is
\* truncated, or a new one is created
HWriteOpen(r) ==
    /\ pc[r] = "wopen"
    /\ \/ /\ written' = written \cup {payload[r]}
          /\ IF tmpName # 0
             THEN /\ fd' = [fd EXCEPT ![r] = tmpName]
                  /\ ino' = [ino EXCEPT ![tmpName] =
                                [content |-> 0, mtime |-> now]]
                  /\ tmpName' = tmpName
             ELSE /\ fd' = [fd EXCEPT ![r] = r]
                  /\ ino' = [ino EXCEPT ![r] = [content |-> 0, mtime |-> now]]
                  /\ tmpName' = r
          /\ pc' = [pc EXCEPT ![r] = "wdata"]
          /\ UNCHANGED <<resp, faults>>
       \/ /\ faults < MaxFaults
          /\ faults' = faults + 1
          /\ resp' = [resp EXCEPT ![r] = Failed(500)]
          /\ pc' = [pc EXCEPT ![r] = "unlock"]
          /\ UNCHANGED <<fd, ino, tmpName, written>>
    /\ UNCHANGED <<conOthers,
                   lockVars, origInfo, payload, finalName, orig, now,
                   encCount, touched, swept, spc>>

\* os.WriteFile's write(fd, payload) and close
HWriteData(r) ==
    /\ pc[r] = "wdata"
    /\ ino' = [ino EXCEPT ![fd[r]] = [content |-> payload[r], mtime |-> now]]
    /\ fd' = [fd EXCEPT ![r] = 0]
    /\ pc' = [pc EXCEPT ![r] = "rename"]
    /\ UNCHANGED <<conOthers,
                   lockVars, origInfo, payload, resp, tmpName, finalName,
                   orig, now, encCount, faults, touched, swept, spc, written>>

\* manager.go:90-93  os.Rename(tmp, cachePath); on error os.Remove(tmp)
HRename(r) ==
    /\ pc[r] = "rename"
    /\ IF tmpName # 0
       THEN /\ finalName' = tmpName
            /\ tmpName' = 0
            /\ resp' = resp
            /\ pc' = [pc EXCEPT ![r] = "serve3"]
       ELSE /\ resp' = [resp EXCEPT ![r] = Failed(500)]
            /\ pc' = [pc EXCEPT ![r] = "unlock"]
            /\ UNCHANGED <<finalName, tmpName>>
    /\ UNCHANGED <<conOthers,
                   lockVars, origInfo, payload, fd, ino, orig, now, encCount,
                   faults, touched, swept, spc, written>>

\* handler.go:190-195  serve the file just written
HServe3(r) ==
    /\ pc[r] = "serve3"
    /\ resp' = [resp EXCEPT ![r] =
                  IF finalName # 0
                  THEN Served(ino[finalName].content, FALSE)
                  ELSE Failed(500)]
    /\ pc' = [pc EXCEPT ![r] = "unlock"]
    /\ UNCHANGED <<conOthers,
                   lockVars, origInfo, payload, fd, tmpName, finalName, ino,
                   orig, now, encCount, faults, touched, swept, spc, written>>

\* deferred release(): mutex.Unlock() ...
HUnlock(r) ==
    /\ pc[r] = "unlock"
    /\ mutexUnlock(r)
    /\ pc' = [pc EXCEPT ![r] = "release"]
    /\ UNCHANGED <<conOthers,
                   locks, mref, lkey, lpc, origInfo, payload, fd, resp,
                   tmpName, finalName, ino, orig, now, encCount, faults,
                   touched, swept, spc, written>>

\* ... then k.release(key, mutex)
HRelease(r) ==
    /\ pc[r] = "release"
    /\ release(r, CacheKey)
    /\ pc' = [pc EXCEPT ![r] = "done"]
    /\ UNCHANGED <<conOthers,
                   mheld, lkey, lpc, origInfo, payload, fd, resp, tmpName,
                   finalName, ino, orig, now, encCount, faults, touched,
                   swept, spc, written>>

\* The environment touches the original: a later mtime, same bytes.
Touch ==
    /\ now < 1 + MaxTouch
    /\ now' = now + 1
    /\ orig' = [orig EXCEPT !.mtime = now + 1]
    /\ touched' = TRUE
    /\ UNCHANGED <<conOthers,
                   lockVars, pc, origInfo, payload, fd, resp, tmpName,
                   finalName, ino, encCount, faults, swept, spc, written>>

\* The environment replaces the original: other bytes and a later mtime.
Replace ==
    /\ now < 1 + MaxTouch
    /\ now' = now + 1
    /\ orig' = [mtime |-> now + 1, content |-> orig.content + 1]
    /\ touched' = TRUE
    /\ UNCHANGED <<conOthers,
                   lockVars, pc, origInfo, payload, fd, resp, tmpName,
                   finalName, ino, encCount, faults, swept, spc, written>>

\* manager.go:194-225  the sweeper visits the cache file: d.Info(), then
\* lookupOriginalInfo; the file is outdated when the original is newer
SweepInspect ==
    /\ spc = "idle"
    /\ finalName # 0
    /\ orig.mtime > ino[finalName].mtime
    /\ spc' = "remove"
    /\ UNCHANGED <<conOthers,
                   lockVars, pc, origInfo, payload, fd, resp, tmpName,
                   finalName, ino, orig, now, encCount, faults, touched,
                   swept, written>>

\* manager.go:328-339  removeCacheFile: os.Remove(path) of whatever the
\* name holds now
SweepRemove ==
    /\ spc = "remove"
    /\ spc' = "idle"
    /\ finalName' = 0
    /\ swept' = (swept \/ finalName # 0)
    /\ UNCHANGED <<conOthers,
                   lockVars, pc, origInfo, payload, fd, resp, tmpName, ino,
                   orig, now, encCount, faults, touched, written>>

ConNext ==
    \/ \E r \in Procs : HStat(r)
    \/ \E r \in Procs : HProbe1(r)
    \/ \E r \in Procs : HServe1(r)
    \/ \E r \in Procs : HLock(r)
    \/ \E r \in Procs : HAcquire(r)
    \/ \E r \in Procs : HProbe2(r)
    \/ \E r \in Procs : HServe2(r)
    \/ \E r \in Procs : HEncode(r)
    \/ \E r \in Procs : HWriteOpen(r)
    \/ \E r \in Procs : HWriteData(r)
    \/ \E r \in Procs : HRename(r)
    \/ \E r \in Procs : HServe3(r)
    \/ \E r \in Procs : HUnlock(r)
    \/ \E r \in Procs : HRelease(r)
    \/ Touch
    \/ Replace
    \/ SweepInspect
    \/ SweepRemove

\* ===================================================================
\* Paths of SpecSeq: a file name is the sequence of its dot-separated
\* parts, <<"a", "jpg", "webp">> for a.jpg.webp (one directory, one
\* geometry)
\* ===================================================================

\* strings.ToLower on one part.
ToLower(part) ==
    CASE part = "JPG" -> "jpg"
      [] part = "WEBP" -> "webp"
      [] OTHER -> part

\* filepath.Ext: the suffix from the final dot, <<>> when there is none.
Ext(path) == IF Len(path) > 1 THEN <<path[Len(path)]>> ELSE <<>>

\* strings.TrimSuffix(path, filepath.Ext(path)).
TrimExt(path) == IF Len(path) > 1 THEN SubSeq(path, 1, Len(path) - 1) ELSE path

LowerExt(path) == [i \in DOMAIN Ext(path) |-> ToLower(Ext(path)[i])]

\* handler.go:27-33
extensionToFormat == {<<"jpg">>, <<"jpeg">>, <<"png">>, <<"webp">>, <<"avif">>}

\* manager.go:291-296
allowedCacheExtensions == {<<"png">>, <<"avif">>, <<"webp">>, <<"jpg">>}

isAllowedCacheExt(path) == LowerExt(path) \in allowedCacheExtensions

\* handler.go:203-220
buildSourceCandidates(relative) ==
    LET first == <<[relative |-> relative, cacheSuffix |-> <<>>]>>
        basePath == TrimExt(relative)
    IN  IF Ext(relative) = <<>> THEN first
        ELSE IF basePath = relative THEN first
        ELSE IF LowerExt(basePath) \in extensionToFormat
             THEN Append(first, [relative |-> basePath,
                                 cacheSuffix |-> LowerExt(relative)])
             ELSE first

ReqPaths == {<<"a", "jpg">>, <<"a", "jpg", "webp">>}
BaseFiles == {<<"a", "jpg">>, <<"a", "jpg", "webp">>}
CacheRels == {<<"a", "jpg">>, <<"a", "jpg", "webp">>}

\* filepath.WalkDir visits the entries of a directory in lexical order.
WalkOrder == << <<"a", "jpg">>, <<"a", "jpg", "webp">> >>

\* os.Stat under base_dir.
BaseStat(b, f) ==
    IF f \in BaseFiles /\ b[f].exists
    THEN [ok |-> TRUE, mtime |-> b[f].mtime]
    ELSE [ok |-> FALSE, mtime |-> 0]

\* ===================================================================
\* memoryCache and hotCache: a list with the most recently used entry
\* first, and the used counter
\* ===================================================================
Deps == {1, 2}
MemLimit == 2
HotLimit == 2

\* cache.memory_cache_size: deployment 1 disables the memory tier.
MemoryCacheSize(dep) == IF dep = 1 THEN 0 ELSE MemLimit
\* NewManager: max_memory_chunk unset, so chunk = limit.
MaxMemoryChunk(dep) == MemoryCacheSize(dep)
\* cache.storage_hot_cache_size, the same in both deployments.
StorageHotCacheSize(dep) == HotLimit

memoryEnabled(dep) == MemoryCacheSize(dep) > 0
hotEnabled(dep) == StorageHotCacheSize(dep) > 0

Size(body) == IF body = 0 THEN 0 ELSE 1

EmptyList == [order |-> <<>>, used |-> 0]

ListKeys(l) == {l.order[i].key : i \in DOMAIN l.order}

Without(order, key) == SelectSeq(order, LAMBDA e : e.key # key)

EntryOf(l, key) ==
    l.order[CHOOSE i \in DOMAIN l.order : l.order[i].key = key]

ClampZero(n) == IF n < 0 THEN 0 ELSE n

\* memoryCache.removeElement / memoryCache.remove / hotCache.remove
listRemove(l, key) ==
    IF key \notin ListKeys(l) THEN l
    ELSE [order |-> Without(l.order, key),
          used |-> ClampZero(l.used - EntryOf(l, key).size)]

\* enforceLimitLocked: evict from the back until the byte sum fits.
RECURSIVE enforceLimit(_, _)
enforceLimit(l, limit) ==
    IF limit > 0 /\ l.used > limit /\ Len(l.order) > 0
    THEN enforceLimit([order |-> SubSeq(l.order, 1, Len(l.order) - 1),
                       used |-> l.used - l.order[Len(l.order)].size], limit)
    ELSE [l EXCEPT !.used = ClampZero(l.used)]

\* memoryCache.store
memStore(l, limit, chunk, key, body, mtime) ==
    LET size == Size(body) IN
    IF limit <= 0 THEN l
    ELSE IF size = 0 THEN listRemove(l, key)
    ELSE IF chunk > 0 /\ size > chunk THEN l
    ELSE IF size > limit THEN l
    ELSE LET dropped == listRemove(l, key)
             entry == [key |-> key, payload |-> body, size |-> size,
                       modTime |-> mtime]
         IN  enforceLimit([order |-> <<entry>> \o dropped.order,
                           used |-> dropped.used + size], limit)

\* hotCache.mark / upsertLocked
hotMark(l, limit, key, size) ==
    IF limit <= 0 \/ size <= 0 THEN l
    ELSE IF key \in ListKeys(l)
    THEN enforceLimit([order |-> <<[key |-> key, size |-> size]>>
                                    \o Without(l.order, key),
                       used |-> l.used + size - EntryOf(l, key).size], limit)
    ELSE enforceLimit([order |-> <<[key |-> key, size |-> size]>> \o l.order,
                       used |-> l.used + size], limit)

\* Mutant: protect answers and resizes without moving the entry to the
\* front.
hotProtectNoMove(l, limit, key, size) ==
    IF limit <= 0 \/ size <= 0 THEN [ok |-> FALSE, list |-> l]
    ELSE IF key \notin ListKeys(l) THEN [ok |-> FALSE, list |-> l]
    ELSE [ok |-> TRUE,
          list |-> enforceLimit(
                     [order |-> [i \in DOMAIN l.order |->
                                   IF l.order[i].key = key
                                   THEN [key |-> key, size |-> size]
                                   ELSE l.order[i]],
                      used |-> l.used + size - EntryOf(l, key).size], limit)]

\* hotCache.protect
hotProtect(l, limit, key, size) ==
    IF limit <= 0 \/ size <= 0 THEN [ok |-> FALSE, list |-> l]
    ELSE IF key \notin ListKeys(l) THEN [ok |-> FALSE, list |-> l]
    ELSE [ok |-> TRUE,
          list |-> enforceLimit(
                     [order |-> <<[key |-> key, size |-> size]>>
                                  \o Without(l.order, key),
                      used |-> l.used + size - EntryOf(l, key).size], limit)]

\* ===================================================================
\* Manager on a deployment state d = [cache, mem, hot]
\*   cache: cache rel -> [exists, mtime, content]
\* ===================================================================
CacheTTL == 1
MaxClock == 3

NoFile == [exists |-> FALSE, mtime |-> 0, content |-> 0]

\* Manager.evictMemory
evictMemory(d, dep, path) ==
    IF memoryEnabled(dep) THEN [d EXCEPT !.mem = listRemove(d.mem, path)]
    ELSE d

\* Manager.drop
drop(d, dep, path) ==
    [d EXCEPT !.mem = IF memoryEnabled(dep) THEN listRemove(d.mem, path)
                      ELSE d.mem,
              !.hot = IF hotEnabled(dep) THEN listRemove(d.hot, path)
                      ELSE d.hot]

\* Manager.markHot
markHot(d, dep, path, size) ==
    IF ~hotEnabled(dep) \/ size <= 0 THEN d
    ELSE [d EXCEPT !.hot = hotMark(d.hot, StorageHotCacheSize(dep), path, size)]

\* Manager.IsFresh: the verdict and the state after its memory eviction.
MgrIsFresh(d, dep, path, omtime, ttl, clock) ==
    LET f == d.cache[path]
        ok == FreshPred(f.exists, f.mtime, omtime, ttl, clock)
    IN  [fresh |-> ok, d |-> IF ok THEN d ELSE evictMemory(d, dep, path)]

\* Mutant: rewriting an existing file leaves its mtime as it was.
MgrWriteKeepMtime(d, dep, path, body, clock) ==
    LET old == d.cache[path]
        onDisk == [d EXCEPT !.cache[path] =
                      [exists |-> TRUE,
                       mtime |-> IF old.exists THEN old.mtime ELSE clock,
                       content |-> body]]
    IN  IF memoryEnabled(dep)
        THEN markHot([onDisk EXCEPT !.mem =
                         memStore(onDisk.mem, MemoryCacheSize(dep),
                                  MaxMemoryChunk(dep), path, body, clock)],
                     dep, path, Size(body))
        ELSE onDisk

\* Manager.Write without I/O failure: temp file, rename, then (only when
\* the memory tier exists) memory.store and markHot.
MgrWrite(d, dep, path, body, clock) ==
    LET onDisk == [d EXCEPT !.cache[path] =
                      [exists |-> TRUE, mtime |-> clock, content |-> body]]
    IN  IF memoryEnabled(dep)
        THEN markHot([onDisk EXCEPT !.mem =
                         memStore(onDisk.mem, MemoryCacheSize(dep),
                                  MaxMemoryChunk(dep), path, body, clock)],
                     dep, path, Size(body))
        ELSE onDisk

\* Mutant: the sweeper looks only at base_dir/<rel>, without the fallback.
lookupOriginalInfoExact(b, rel) == BaseStat(b, rel)

\* Manager.lookupOriginalInfo: base_dir/<rel>, else base_dir/<rel without
\* its last extension>.
lookupOriginalInfo(b, rel) ==
    IF BaseStat(b, rel).ok THEN BaseStat(b, rel)
    ELSE IF TrimExt(rel) = rel THEN BaseStat(b, rel)
    ELSE BaseStat(b, TrimExt(rel))

\* Manager.removeCacheFile
removeCacheFile(d, dep, path) ==
    drop([d EXCEPT !.cache[path] = NoFile], dep, path)

\* Mutant: the sweeper never consults the hot-set.
shouldKeepHotNever(d, dep, path, size) == [ok |-> FALSE, list |-> d.hot]

\* Manager.shouldKeepHot
shouldKeepHot(d, dep, path, size) ==
    IF ~hotEnabled(dep) \/ size <= 0 THEN [ok |-> FALSE, list |-> d.hot]
    ELSE hotProtect(d.hot, StorageHotCacheSize(dep), path, size)

\* Mutant: the sweeper also removes a file as old as its original.
sweepFileNotBefore(d, dep, path, b, ttl, clock) ==
    LET info == d.cache[path] IN
    IF ~info.exists \/ ~isAllowedCacheExt(path) THEN d
    ELSE IF ttl > 0 /\ clock - info.mtime > ttl
    THEN LET keep == shouldKeepHot(d, dep, path, Size(info.content)) IN
         IF keep.ok THEN [d EXCEPT !.hot = keep.list]
         ELSE removeCacheFile(d, dep, path)
    ELSE LET o == lookupOriginalInfo(b, path) IN
         IF ~o.ok THEN removeCacheFile(d, dep, path)
         ELSE IF o.mtime >= info.mtime THEN removeCacheFile(d, dep, path)
         ELSE d

\* manager.go:191-225  the walk callback for one cache file
sweepFile(d, dep, path, b, ttl, clock) ==
    LET info == d.cache[path] IN
    IF ~info.exists \/ ~isAllowedCacheExt(path) THEN d
    ELSE IF ttl > 0 /\ clock - info.mtime > ttl
    THEN LET keep == shouldKeepHot(d, dep, path, Size(info.content)) IN
         IF keep.ok THEN [d EXCEPT !.hot = keep.list]
         ELSE removeCacheFile(d, dep, path)
    ELSE LET o == lookupOriginalInfo(b, path) IN
         IF ~o.ok THEN removeCacheFile(d, dep, path)
         ELSE IF o.mtime > info.mtime THEN removeCacheFile(d, dep, path)
         ELSE d

\* Manager.cleanupOnce: the walk over cache_dir, file by file.
RECURSIVE cleanupFrom(_, _, _, _, _, _)
cleanupFrom(d, dep, i, b, ttl, clock) ==
    IF i > Len(WalkOrder) THEN d
    ELSE cleanupFrom(sweepFile(d, dep, WalkOrder[i], b, ttl, clock),
                     dep, i + 1, b, ttl, clock)

cleanupOnce(d, dep, b, ttl, clock) == cleanupFrom(d, dep, 1, b, ttl, clock)

\* handler.go:110-145  the first candidate whose source exists.
RECURSIVE pickSource(_, _, _)
pickSource(b, cands, i) ==
    IF i > Len(cands) THEN [found |-> FALSE, source |-> <<>>,
                            cacheRel |-> <<>>, mtime |-> 0]
    ELSE IF BaseStat(b, cands[i].relative).ok
    THEN [found |-> TRUE, source |-> cands[i].relative,
          cacheRel |-> cands[i].relative \o cands[i].cacheSuffix,
          mtime |-> BaseStat(b, cands[i].relative).mtime]
    ELSE pickSource(b, cands, i + 1)

\* Handler.handleResize run alone, without I/O failure: the response, whether
\* processor.Resize was invoked, and the deployment afterwards.
handleResize(d, dep, relative, b, ttl, clock) ==
    LET src == pickSource(b, buildSourceCandidates(relative), 1) IN
    IF ~src.found
    THEN [resp |-> Failed(404), enc |-> FALSE, d |-> d]
    ELSE LET cachePath == src.cacheRel
             probe == MgrIsFresh(d, dep, cachePath, src.mtime, ttl, clock)
         IN  IF probe.fresh
             THEN [resp |-> Served(probe.d.cache[cachePath].content, TRUE),
                   enc |-> FALSE, d |-> probe.d]
             ELSE LET body == Resize(b[src.source].content)
                      built == MgrWrite(probe.d, dep, cachePath, body, clock)
                  IN  [resp |-> Served(built.cache[cachePath].content, FALSE),
                       enc |-> TRUE, d |-> built]

\* The source handleResize would pick for a request path right now.
SourceOf(b, relative) == pickSource(b, buildSourceCandidates(relative), 1)

\* ===================================================================
\* SpecSeq: requests, touches, deletions, clock ticks and sweeps, one at a
\* time, applied to both deployments
\* ===================================================================
EmptyDep ==
    [cache |-> [c \in CacheRels |-> NoFile], mem |-> EmptyList,
     hot |-> EmptyList]

NoResps == [dep \in Deps |-> NoResp]
AllFalse == [dep \in Deps |-> FALSE]

OpRecord(kind, path, resps, encs, prev, hadPrev, wasQuiet, later, newer, pre) ==
    [kind |-> kind, path |-> path, resp |-> resps, enc |-> encs,
     prev |-> prev, hadPrev |-> hadPrev, quiet |-> wasQuiet,
     later |-> later, newer |-> newer, pre |-> pre]

PlainOp(kind, path) ==
    OpRecord(kind, path, NoResps, AllFalse, NoResps, FALSE, FALSE, AllFalse,
             AllFalse, dstate)

SeqFixed ==
    /\ sclock = 1
    /\ dstate = [dep \in Deps |-> EmptyDep]
    /\ lastOp = OpRecord("init", <<>>, NoResps, AllFalse, NoResps, FALSE,
                         FALSE, AllFalse, AllFalse,
                         [dep \in Deps |-> EmptyDep])
    /\ lastGet = [q \in ReqPaths |-> NoResps]
    /\ quiet = [q \in ReqPaths |-> FALSE]
    /\ pendLater = [q \in ReqPaths |-> AllFalse]
    /\ pendNewer = [q \in ReqPaths |-> AllFalse]

BaseWith(webpExists) ==
    [f \in BaseFiles |->
        IF f = <<"a", "jpg">>
        THEN [exists |-> TRUE, mtime |-> 1, content |-> 1]
        ELSE [exists |-> webpExists, mtime |-> IF webpExists THEN 1 ELSE 0,
              content |-> IF webpExists THEN 2 ELSE 0]]

\* The values the variables of SpecSeq keep under the other specifications.
SeqIdle == SeqFixed /\ cfgTTL = 0 /\ base = BaseWith(FALSE)

SeqInit ==
    /\ SeqFixed
    /\ cfgTTL \in {0, CacheTTL}
    /\ \E w \in BOOLEAN : base = BaseWith(w)

STick ==
    /\ sclock < MaxClock
    /\ sclock' = sclock + 1
    /\ lastOp' = PlainOp("tick", <<>>)
    /\ UNCHANGED <<seqOthers, cfgTTL, base, dstate, lastGet, quiet, pendLater,
                   pendNewer>>

\* touch -d m base_dir/f: the mtime becomes m, a value later than the old
\* one and not in the future; the bytes stay.
STouch(f, m) ==
    /\ base[f].exists
    /\ base[f].mtime < m
    /\ m <= sclock
    /\ base' = [base EXCEPT ![f].mtime = m]
    /\ LET hits(q, dep) ==
               LET src == SourceOf(base, q)
                   c == dstate[dep].cache[src.cacheRel]
               IN  /\ src.found
                   /\ src.source = f
                   /\ FreshPred(c.exists, c.mtime, src.mtime, cfgTTL, sclock)
           newer(q, dep) ==
               /\ hits(q, dep)
               /\ m > dstate[dep].cache[SourceOf(base, q).cacheRel].mtime
       IN  /\ pendLater' = [q \in ReqPaths |-> [dep \in Deps |->
                               pendLater[q][dep] \/ hits(q, dep)]]
           /\ pendNewer' = [q \in ReqPaths |-> [dep \in Deps |->
                               pendNewer[q][dep] \/ newer(q, dep)]]
    /\ quiet' = [q \in ReqPaths |-> FALSE]
    /\ lastOp' = PlainOp("touch", f)
    /\ UNCHANGED <<seqOthers, sclock, cfgTTL, dstate, lastGet>>

\* rm base_dir/f
SDelete(f) ==
    /\ base[f].exists
    /\ base' = [base EXCEPT ![f] = [exists |-> FALSE, mtime |-> 0,
                                    content |-> 0]]
    /\ quiet' = [q \in ReqPaths |-> FALSE]
    /\ pendLater' = [q \in ReqPaths |-> AllFalse]
    /\ pendNewer' = [q \in ReqPaths |-> AllFalse]
    /\ lastOp' = PlainOp("delete", f)
    /\ UNCHANGED <<seqOthers, sclock, cfgTTL, dstate, lastGet>>

\* GET /resize/<geometry>/<q> on both deployments
SRequest(q) ==
    LET out == [dep \in Deps |->
                   handleResize(dstate[dep], dep, q, base, cfgTTL, sclock)]
    IN  /\ dstate' = [dep \in Deps |-> out[dep].d]
        /\ lastOp' = OpRecord("get", q,
                              [dep \in Deps |-> out[dep].resp],
                              [dep \in Deps |-> out[dep].enc],
                              lastGet[q], lastGet[q] # NoResps, quiet[q],
                              pendLater[q], pendNewer[q], dstate)
        /\ lastGet' = [lastGet EXCEPT ![q] = [dep \in Deps |-> out[dep].resp]]
        /\ quiet' = [quiet EXCEPT ![q] = TRUE]
        /\ pendLater' = [pendLater EXCEPT ![q] = AllFalse]
        /\ pendNewer' = [pendNewer EXCEPT ![q] = AllFalse]
        /\ UNCHANGED <<seqOthers, sclock, cfgTTL, base>>

\* one Manager.cleanupOnce on both deployments
SSweep ==
    /\ dstate' = [dep \in Deps |->
                     cleanupOnce(dstate[dep], dep, base, cfgTTL, sclock)]
    /\ lastOp' = PlainOp("sweep", <<>>)
    /\ quiet' = [q \in ReqPaths |-> FALSE]
    /\ UNCHANGED <<seqOthers, sclock, cfgTTL, base, lastGet, pendLater,
                   pendNewer>>

SeqNext ==
    \/ STick
    \/ \E f \in BaseFiles, m \in 1..MaxClock : STouch(f, m)
    \/ \E f \in BaseFiles : SDelete(f)
    \/ \E q \in ReqPaths : SRequest(q)
    \/ SSweep

\* ===================================================================
\* SpecPath: Config.ResolvePaths and Config.CachePath on strings, a string
\* being a sequence of characters
\* ===================================================================
MaxLen == 5

Chars == {"/", ".", "a"}
Strings == UNION {[1..n -> Chars] : n \in 0..MaxLen}

Slash == <<"/">>
Dot == <<".">>
DotDot == <<".", ".">>

\* storage.base_dir and storage.cache_dir
BaseDir == <<"/", "b">>
CacheDir == <<"/", "c">>

\* strings.HasPrefix
HasPrefix(str, prefix) ==
    Len(str) >= Len(prefix) /\ SubSeq(str, 1, Len(prefix)) = prefix

\* strings.TrimPrefix: the prefix is removed once.
TrimPrefix(str, prefix) ==
    IF HasPrefix(str, prefix) THEN SubSeq(str, Len(prefix) + 1, Len(str))
    ELSE str

\* filepath.ToSlash and filepath.FromSlash where the separator is "/".
ToSlash(str) == str
FromSlash(str) == str

\* The elements of a path between its slashes, empty ones included.
RECURSIVE splitSlash(_, _, _)
splitSlash(str, cur, out) ==
    IF str = <<>> THEN Append(out, cur)
    ELSE IF Head(str) = "/" THEN splitSlash(Tail(str), <<>>, Append(out, cur))
    ELSE splitSlash(Tail(str), Append(cur, Head(str)), out)

RECURSIVE joinSlash(_)
joinSlash(elems) ==
    IF elems = <<>> THEN <<>>
    ELSE IF Len(elems) = 1 THEN elems[1]
    ELSE elems[1] \o Slash \o joinSlash(Tail(elems))

\* filepath.Clean, element by element: empty and "." elements are dropped,
\* ".." removes the element before it, is dropped at the root and is kept
\* at the start of a relative path.
RECURSIVE cleanElems(_, _, _)
cleanElems(elems, rooted, out) ==
    IF elems = <<>> THEN out
    ELSE LET e == Head(elems) IN
         IF e = <<>> \/ e = Dot THEN cleanElems(Tail(elems), rooted, out)
         ELSE IF e = DotDot
         THEN IF out # <<>> /\ out[Len(out)] # DotDot
              THEN cleanElems(Tail(elems), rooted, SubSeq(out, 1, Len(out) - 1))
              ELSE IF rooted THEN cleanElems(Tail(elems), rooted, out)
              ELSE cleanElems(Tail(elems), rooted, Append(out, DotDot))
         ELSE cleanElems(Tail(elems), rooted, Append(out, e))

Clean(path) ==
    IF path = <<>> THEN Dot
    ELSE LET rooted == Head(path) = "/"
             body == joinSlash(cleanElems(splitSlash(path, <<>>, <<>>),
                                          rooted, <<>>))
         IN  IF rooted THEN Slash \o body
             ELSE IF body = <<>> THEN Dot
             ELSE body

\* filepath.Join: the non-empty elements joined by "/" and cleaned.
Join(elems) ==
    LET kept == SelectSeq(elems, LAMBDA e : e # <<>>) IN
    IF kept = <<>> THEN <<>> ELSE Clean(joinSlash(kept))

\* regexp.MatchString for a pattern that is a literal string.
MatchString(pattern, input) ==
    \E i \in 1..(Len(input) - Len(pattern) + 1) :
        SubSeq(input, i, i + Len(pattern) - 1) = pattern

\* regexp.ReplaceAllString for a literal pattern and a replacement without
\* "$": every match, leftmost first, not overlapping.
RECURSIVE ReplaceAllString(_, _, _)
ReplaceAllString(pattern, input, repl) ==
    IF input = <<>> THEN <<>>
    ELSE IF HasPrefix(input, pattern)
    THEN repl \o ReplaceAllString(pattern,
                     SubSeq(input, Len(pattern) + 1, Len(input)), repl)
    ELSE <<Head(input)>> \o ReplaceAllString(pattern, Tail(input), repl)

\* The rewrite rules a chain is made of.
Rules ==
    {[pattern |-> <<"a">>, replacement |-> <<".", ".", "/">>],
     [pattern |-> <<"a">>, replacement |-> <<".", ".">>],
     [pattern |-> <<"a", "/">>, replacement |-> Slash],
     [pattern |-> Dot, replacement |-> <<>>]}

\* cfg.Rewrites: no rule, one rule, or two rules in either order.
Chains ==
    {<<>>} \cup {<<r>> : r \in Rules} \cup {<<r1, r2>> : r1, r2 \in Rules}

\* RewriteRule.Apply
Apply(rule, input) ==
    IF ~MatchString(rule.pattern, input) THEN [out |-> input, ok |-> FALSE]
    ELSE [out |-> ReplaceAllString(rule.pattern, input, rule.replacement),
          ok |-> TRUE]

\* Mutant: every rule that matches is applied, each to the output of the
\* one before.
RECURSIVE ApplyRewritesAll(_, _)
ApplyRewritesAll(rules, input) ==
    IF rules = <<>> THEN input
    ELSE ApplyRewritesAll(Tail(rules), Apply(Head(rules), input).out)

\* Config.ApplyRewrites: the first rule that matches decides.
RECURSIVE ApplyRewrites(_, _)
ApplyRewrites(rules, input) ==
    IF rules = <<>> THEN input
    ELSE IF Apply(Head(rules), input).ok THEN Apply(Head(rules), input).out
    ELSE ApplyRewrites(Tail(rules), input)

\* Mutant: the traversal check without the case of ".." itself.
escapesPrefixOnly(clean) == HasPrefix(clean, <<".", ".", "/">>)

\* config.go:457-461  the traversal check of ResolvePaths
escapes(clean) == HasPrefix(clean, <<".", ".", "/">>) \/ clean = DotDot

NoPath == [err |-> "", clean |-> <<>>, full |-> <<>>]

\* Config.ResolvePaths
ResolvePaths(rules, relative) ==
    LET prepared == ApplyRewrites(rules, ToSlash(TrimPrefix(relative, Slash)))
        clean == Clean(prepared)
    IN  IF clean = Dot
        THEN [err |-> "empty target path", clean |-> <<>>, full |-> <<>>]
        ELSE IF escapes(clean)
        THEN [err |-> "path attempts to escape base directory",
              clean |-> <<>>, full |-> <<>>]
        ELSE [err |-> "", clean |-> clean,
              full |-> Join(<<BaseDir, FromSlash(clean)>>)]

\* strconv.Itoa of a dimension
Itoa(n) == <<(<<"0", "1", "2", "3", "4", "5", "6", "7", "8", "9">>)[n + 1]>>

\* formatGeometryPrefix
formatGeometryPrefix(width, height) ==
    LET w == IF width > 0 THEN Itoa(width) ELSE <<>>
        h == IF height > 0 THEN Itoa(height) ELSE <<>>
    IN  IF w = <<>> /\ h = <<>> THEN <<"0", "x", "0">>
        ELSE w \o <<"x">> \o h

\* Config.CachePath
CachePath(width, height, relative) ==
    Join(<<CacheDir, formatGeometryPrefix(width, height),
           FromSlash(Clean(TrimPrefix(relative, Slash)))>>)

\* Width and height of the geometry segment, 0 when left out.
Dims == {0, 1}

\* handler.go:130-133  the cache suffix of a candidate: none, or the
\* lower-cased extension of the request path.
CacheSuffixes == {<<>>, <<".", "a">>}

PathIdle ==
    /\ prules = <<>>
    /\ pin = <<>>
    /\ pres = NoPath
    /\ pcp = <<>>
    /\ ppc = "idle"

PathInit ==
    /\ prules \in Chains
    /\ pin \in Strings
    /\ pres = NoPath
    /\ pcp = <<>>
    /\ ppc = "start"

\* handler.go:111-115  ResolvePaths on the candidate; an error is a 400.
PResolve ==
    /\ ppc = "start"
    /\ pres' = ResolvePaths(prules, pin)
    /\ ppc' = IF pres'.err # "" THEN "400" ELSE "resolved"
    /\ UNCHANGED <<pathOthers, prules, pin, pcp>>

\* handler.go:130-147  CachePath on the clean path plus the cache suffix.
PCachePath(width, height, suffix) ==
    /\ ppc = "resolved"
    /\ pcp' = CachePath(width, height, pres.clean \o suffix)
    /\ ppc' = "cached"
    /\ UNCHANGED <<pathOthers, prules, pin, pres>>

PathNext ==
    \/ PResolve
    \/ \E width \in Dims, height \in Dims, suffix \in CacheSuffixes :
          PCachePath(width, height, suffix)

\* ===================================================================
\* SpecFront: one request through Handler.handleResize, from the geometry
\* segment to the answer, on an empty cache
\* ===================================================================
MaxGeoLen == 3

\* resize.max_width and resize.max_height
MaxWidth == 2
MaxHeight == 3

GeoChars == {"0", "2", "3", "x", "-", " "}
GeoStrings == UNION {[1..n -> GeoChars] : n \in 0..MaxGeoLen}

DigitChars == {"0", "1", "2", "3", "4", "5", "6", "7", "8", "9"}

DigitVal(ch) == CHOOSE n \in 0..9 : Itoa(n) = <<ch>>

\* The value of a string of decimal digits.
RECURSIVE digitsValue(_)
digitsValue(str) ==
    IF str = <<>> THEN 0
    ELSE digitsValue(SubSeq(str, 1, Len(str) - 1)) * 10
         + DigitVal(str[Len(str)])

\* strconv.Atoi: an optional sign, then one or more decimal digits.
Atoi(raw) ==
    LET signed == raw # <<>> /\ Head(raw) \in {"-", "+"}
        digits == IF signed THEN Tail(raw) ELSE raw
        ok == digits # <<>> /\ \A i \in DOMAIN digits : digits[i] \in DigitChars
    IN  IF ~ok THEN [ok |-> FALSE, value |-> 0]
        ELSE [ok |-> TRUE,
              value |-> IF signed /\ Head(raw) = "-"
                        THEN 0 - digitsValue(digits)
                        ELSE digitsValue(digits)]

\* strings.TrimSpace(raw) == ""
IsBlank(raw) == \A i \in DOMAIN raw : raw[i] = " "

\* parseDimension
parseDimension(raw) ==
    IF IsBlank(raw) THEN [ok |-> TRUE, value |-> 0] ELSE Atoi(raw)

\* parseGeometry: strings.SplitN(geometry, "x", 2), then both sides.
parseGeometry(geometry) ==
    LET xs == {i \in DOMAIN geometry : geometry[i] = "x"}
        bad == [ok |-> FALSE, width |-> 0, height |-> 0]
    IN  IF xs = {} THEN bad
        ELSE LET at == Min(xs)
                 w == parseDimension(SubSeq(geometry, 1, at - 1))
                 h == parseDimension(SubSeq(geometry, at + 1, Len(geometry)))
             IN  IF ~w.ok THEN bad
                 ELSE IF ~h.ok THEN bad
                 ELSE [ok |-> TRUE, width |-> w.value, height |-> h.value]

\* Mutant: both sides are compared against max_width.
validateDimensionsOneMax(width, height) ==
    /\ ~(width < 0 \/ height < 0)
    /\ ~(width > 0 /\ width > MaxWidth)
    /\ ~(height > 0 /\ height > MaxWidth)

\* Handler.validateDimensions: TRUE when it returns nil.
validateDimensions(width, height) ==
    /\ ~(width < 0 \/ height < 0)
    /\ ~(width > 0 /\ width > MaxWidth)
    /\ ~(height > 0 /\ height > MaxHeight)

\* The request names of SpecFront: a, a.<e1>, a.<e1>.<e2>, and the empty
\* path.
ExtParts == {"jpg", "JPG", "webp", "WEBP", "txt"}
FrontNames ==
    {<<>>, <<"a">>} \cup {<<"a", e>> : e \in ExtParts}
    \cup {<<"a", e1, e2>> : e1, e2 \in ExtParts}

\* What os.Stat can answer for a candidate.
StatResults == {"ok", "notexist", "error"}

NoOutcome ==
    [status |-> 0, stats |-> 0, locked |-> FALSE, enc |-> FALSE,
     source |-> <<>>, wrote |-> <<>>, prefix |-> <<>>, cached |-> FALSE]

\* respondError before the keyed lock, after n calls of os.Stat.
Rejected(code, n) == [NoOutcome EXCEPT !.status = code, !.stats = n]

\* Mutant: the candidate loop gives up after the first candidate.
statLoopFirstOnly(cands, stat, i) ==
    IF stat[1] = "ok" THEN [code |-> 200, at |-> 1, stats |-> 1]
    ELSE IF stat[1] = "notexist" THEN [code |-> 404, at |-> 0, stats |-> 1]
    ELSE [code |-> 500, at |-> 0, stats |-> 1]

\* handler.go:110-145  the candidate loop from candidate i on: the index of
\* the source, or the error code, and the number of os.Stat calls made.
RECURSIVE statLoop(_, _, _)
statLoop(cands, stat, i) ==
    IF stat[i] = "ok" THEN [code |-> 200, at |-> i, stats |-> i]
    ELSE IF stat[i] = "notexist"
    THEN IF i = Len(cands) THEN [code |-> 404, at |-> 0, stats |-> i]
         ELSE statLoop(cands, stat, i + 1)
    ELSE [code |-> 500, at |-> 0, stats |-> i]

\* Mutant: the extension is looked up as written, without lower-casing.
formatKnownExact(relative) == Ext(relative) \in extensionToFormat

\* handler.go:95-101  the format lookup by lower-cased extension
formatKnown(relative) == LowerExt(relative) \in extensionToFormat

\* Handler.handleResize for one request on an empty cache, the encoder and
\* the cache write succeeding.
handleFront(geometry, relative, stat) ==
    LET g == parseGeometry(geometry) IN
    IF ~g.ok THEN Rejected(400, 0)
    ELSE IF ~validateDimensions(g.width, g.height) THEN Rejected(400, 0)
    ELSE IF relative = <<>> THEN Rejected(400, 0)
    ELSE IF ~formatKnown(relative) THEN Rejected(415, 0)
    ELSE LET cands == buildSourceCandidates(relative)
             found == statLoop(cands, stat, 1)
         IN  IF found.code # 200 THEN Rejected(found.code, found.stats)
             ELSE [status |-> 200, stats |-> found.stats, locked |-> TRUE,
                   enc |-> TRUE,
                   source |-> cands[found.at].relative,
                   wrote |-> cands[found.at].relative
                             \o cands[found.at].cacheSuffix,
                   prefix |-> formatGeometryPrefix(g.width, g.height),
                   cached |-> FALSE]

FrontIdle ==
    /\ rgeo = <<>>
    /\ rpath = <<>>
    /\ rstat = <<"notexist", "notexist">>
    /\ rout = NoOutcome

FrontInit ==
    /\ rgeo \in GeoStrings
    /\ rpath \in FrontNames
    /\ rstat = <<"notexist", "notexist">>
    /\ rout = NoOutcome

\* GET /resize/<rgeo>/<rpath>, the file system answering os.Stat with st.
FServe(st) ==
    /\ rout = NoOutcome
    /\ rstat' = st
    /\ rout' = handleFront(rgeo, rpath, st)
    /\ UNCHANGED <<frontOthers, rgeo, rpath>>

FrontNext == \E st \in [1..2 -> StatResults] : FServe(st)

\* ===================================================================
\* SpecCond: tryServeFromCache (internal/httpapi/handler.go)
\* ===================================================================
\* Times count ticks of 1/TicksPerSecond s; HTTP dates have whole seconds.
TicksPerSecond == 2
MaxMtime == 2
MaxHdrLen == 3

\* Two variants, of different geometry and format.
CondPaths == {"1x1/a.jpg", "2x2/a.jpg.webp"}
formatContentType(p) == IF p = "1x1/a.jpg" THEN "image/jpeg" ELSE "image/webp"

CondPayloads == {<<1>>, <<1, 2>>}

NoCacheFile == [present |-> FALSE, payload |-> <<>>, mtime |-> 0]
CondFiles ==
    {NoCacheFile} \cup [present : {TRUE}, payload : CondPayloads,
                   mtime : 0..MaxMtime]

cacheControlImmutable ==
    "public, max-age=31536000, immutable, s-maxage=31536000"

\* An If-None-Match header is a string; an entity tag in it is one element.
Comma == <<",">>
Space == <<" ">>
HdrChars == {Comma, Space} \cup {buildContentETag(b) : b \in CondPayloads}
InmHeaders == UNION {[1..n -> HdrChars] : n \in 0..MaxHdrLen}

\* If-Modified-Since: absent, not an HTTP date, or a date.
ImsHeaders ==
    {[kind |-> "none", sec |-> 0], [kind |-> "bad", sec |-> 0]}
      \cup [kind : {"date"}, sec : 0..(MaxMtime \div TicksPerSecond)]

\* http.ParseTime
ParseTime(h) == [ok |-> h.kind = "date", t |-> h.sec * TicksPerSecond]

\* modTime.Format(http.TimeFormat): the whole seconds of the time.
TimeFormat(t) == t \div TicksPerSecond

\* strings.Split(header, ",")
RECURSIVE SplitComma(_)
SplitComma(h) ==
    IF \A i \in DOMAIN h : h[i] # Comma THEN <<h>>
    ELSE LET at == Min({i \in DOMAIN h : h[i] = Comma})
         IN  <<SubSeq(h, 1, at - 1)>>
               \o SplitComma(SubSeq(h, at + 1, Len(h)))

\* strings.TrimSpace
RECURSIVE TrimSpace(_)
TrimSpace(str) ==
    IF str = <<>> THEN str
    ELSE IF Head(str) = Space THEN TrimSpace(Tail(str))
    ELSE IF str[Len(str)] = Space
         THEN TrimSpace(SubSeq(str, 1, Len(str) - 1))
    ELSE str

\* Mutant: the candidates are compared untrimmed.
matchETagNoTrim(header, etag) ==
    /\ header # <<>>
    /\ \E i \in DOMAIN SplitComma(header) : SplitComma(header)[i] = <<etag>>

\* matchETag
matchETag(header, etag) ==
    /\ header # <<>>
    /\ \E i \in DOMAIN SplitComma(header) :
          TrimSpace(SplitComma(header)[i]) = <<etag>>

NotAnswered ==
    [served |-> FALSE, status |-> 0, body |-> <<>>, etag |-> <<>>,
     lastModified |-> 0, cacheControl |-> "", contentType |-> "",
     contentLength |-> -1]

\* The 304 answer of tryServeFromCache.
NotModified(etag, modTime) ==
    [served |-> TRUE, status |-> 304, body |-> <<>>, etag |-> etag,
     lastModified |-> TimeFormat(modTime),
     cacheControl |-> cacheControlImmutable, contentType |-> "",
     contentLength |-> -1]

\* tryServeFromCache; served = FALSE when ServeFileStats fails.
tryServeFromCache(p, file, inm, ims) ==
    IF ~file.present THEN NotAnswered
    ELSE
      LET etag == buildContentETag(file.payload)
      IN  IF matchETag(inm, etag)
          THEN NotModified(etag, file.mtime)
          ELSE IF /\ ims.kind # "none"
                  /\ ParseTime(ims).ok
                  /\ ~(file.mtime > ParseTime(ims).t)
          THEN NotModified(etag, file.mtime)
          ELSE [served |-> TRUE, status |-> 200, body |-> file.payload,
                etag |-> etag, lastModified |-> TimeFormat(file.mtime),
                cacheControl |-> cacheControlImmutable,
                contentType |-> formatContentType(p),
                contentLength |-> Len(file.payload)]

CondIdle ==
    /\ cfile = [p \in CondPaths |-> NoCacheFile]
    /\ cinm = <<>>
    /\ cims = [kind |-> "none", sec |-> 0]
    /\ cresp = [p \in CondPaths |-> NotAnswered]

CondInit ==
    /\ cfile \in [CondPaths -> CondFiles]
    /\ cinm \in InmHeaders
    /\ cims \in ImsHeaders
    /\ cresp = [p \in CondPaths |-> NotAnswered]

\* A GET of variant p reaches tryServeFromCache with the client's headers.
CServe(p) ==
    /\ cfile[p].present
    /\ ~cresp[p].served
    /\ cresp' = [cresp EXCEPT ![p] = tryServeFromCache(p, cfile[p], cinm,
                                                       cims)]
    /\ UNCHANGED <<condOthers, cfile, cinm, cims>>

CondNext == \E p \in CondPaths : CServe(p)

\* ===================================================================
\* SpecSweep: Manager.StartCleanup and the walk of cleanupOnce
\*   (which files a sweep removes is decided as in SpecSeq; here a file
\*    is removed when it is stale)
\* ===================================================================
NumSweepFiles == 2
MaxTicks == 2

SweepFiles == 1..NumSweepFiles
CleanupIntervals == {0, 1}

\* filepath.WalkDir lists a directory in lexical order.
RECURSIVE Ascending(_)
Ascending(S) ==
    IF S = {} THEN <<>> ELSE <<Min(S)>> \o Ascending(S \ {Min(S)})

Listing(files) == Ascending({f \in SweepFiles : files[f] # "absent"})

NowhereYet == [pc |-> "", file |-> 0, sweep |-> 0]

SweepIdle ==
    /\ wInterval = 0
    /\ wcancel = FALSE
    /\ wpc = "unstarted"
    /\ wlist = <<>>
    /\ wfile = [f \in SweepFiles |-> "absent"]
    /\ wchan = 0
    /\ wfired = 0
    /\ wsweeps = 0
    /\ wtaken = 0
    /\ wremoved = 0
    /\ wcancelAt = NowhereYet
    /\ wlate = {}

SweepInit ==
    /\ wInterval \in CleanupIntervals
    /\ wcancel = FALSE
    /\ wpc = "unstarted"
    /\ wlist = <<>>
    /\ wfile \in [SweepFiles -> {"absent", "fresh", "stale"}]
    /\ wchan = 0
    /\ wfired = 0
    /\ wsweeps = 0
    /\ wtaken = 0
    /\ wremoved = 0
    /\ wcancelAt = NowhereYet
    /\ wlate = {}

sweepHistory == <<wsweeps, wtaken, wremoved, wcancelAt, wlate>>

\* StartCleanup: no goroutine for an interval <= 0, else a ticker and the
\* goroutine.
WStart ==
    /\ wpc = "unstarted"
    /\ wpc' = IF wInterval <= 0 THEN "none" ELSE "first"
    /\ UNCHANGED <<sweepOthers, wInterval, wcancel, wlist, wfile, wchan,
                   wfired, sweepHistory>>

\* The ticker's timer fires; the tick is dropped when ticker.C is full.
WTick ==
    /\ wpc \in {"first", "walk", "visit", "select"}
    /\ wfired < MaxTicks
    /\ wfired' = wfired + 1
    /\ wchan' = 1
    /\ UNCHANGED <<sweepOthers, wInterval, wcancel, wpc, wlist, wfile,
                   sweepHistory>>

\* The goroutine's first statement: cleanupOnce(ctx).
WFirstSweep ==
    /\ wpc = "first"
    /\ wpc' = "walk"
    /\ wlist' = Listing(wfile)
    /\ wsweeps' = wsweeps + 1
    /\ UNCHANGED <<sweepOthers, wInterval, wcancel, wfile, wchan, wfired,
                   wtaken, wremoved, wcancelAt, wlate>>

\* Mutant: the walk callback does not look at ctx.
WCheckNoCtx ==
    /\ wpc = "walk"
    /\ wlist # <<>>
    /\ wpc' = "visit"
    /\ UNCHANGED <<sweepOthers, wInterval, wcancel, wlist, wfile, wchan,
                   wfired, sweepHistory>>

\* The walk callback on the next file: ctx.Err() != nil ends the walk.
WCheck ==
    /\ wpc = "walk"
    /\ wlist # <<>>
    /\ IF wcancel
       THEN wpc' = "select" /\ wlist' = <<>>
       ELSE wpc' = "visit" /\ wlist' = wlist
    /\ UNCHANGED <<sweepOthers, wInterval, wcancel, wfile, wchan, wfired,
                   sweepHistory>>

\* The rest of the callback: the file is removed when it is stale.
WVisit ==
    /\ wpc = "visit"
    /\ LET f == Head(wlist)
           removes == wfile[f] = "stale"
       IN  /\ wfile' = IF removes THEN [wfile EXCEPT ![f] = "absent"]
                       ELSE wfile
           /\ wremoved' = IF removes THEN wremoved + 1 ELSE wremoved
           /\ wlate' = IF removes /\ wcancel
                       THEN wlate \cup {[file |-> f, sweep |-> wsweeps]}
                       ELSE wlate
    /\ wlist' = Tail(wlist)
    /\ wpc' = "walk"
    /\ UNCHANGED <<sweepOthers, wInterval, wcancel, wchan, wfired, wsweeps,
                   wtaken, wcancelAt>>

\* WalkDir has visited everything: cleanupOnce returns.
WWalkEnd ==
    /\ wpc = "walk"
    /\ wlist = <<>>
    /\ wpc' = "select"
    /\ UNCHANGED <<sweepOthers, wInterval, wcancel, wlist, wfile, wchan,
                   wfired, sweepHistory>>

\* select, case <-ctx.Done(): return (and the deferred ticker.Stop).
WSelectDone ==
    /\ wpc = "select"
    /\ wcancel
    /\ wpc' = "done"
    /\ UNCHANGED <<sweepOthers, wInterval, wcancel, wlist, wfile, wchan,
                   wfired, sweepHistory>>

\* select, case <-ticker.C: cleanupOnce(ctx).
WSelectTick ==
    /\ wpc = "select"
    /\ wchan = 1
    /\ wchan' = 0
    /\ wtaken' = wtaken + 1
    /\ wpc' = "walk"
    /\ wlist' = Listing(wfile)
    /\ wsweeps' = wsweeps + 1
    /\ UNCHANGED <<sweepOthers, wInterval, wcancel, wfile, wfired, wremoved,
                   wcancelAt, wlate>>

\* OnStop: cleanupCancel().
WCancel ==
    /\ wpc # "unstarted"
    /\ ~wcancel
    /\ wcancel' = TRUE
    /\ wcancelAt' = [pc |-> wpc,
                     file |-> IF wlist = <<>> THEN 0 ELSE Head(wlist),
                     sweep |-> wsweeps]
    /\ UNCHANGED <<sweepOthers, wInterval, wpc, wlist, wfile, wchan, wfired,
                   wsweeps, wtaken, wremoved, wlate>>

\* A request writes cache file f (Manager.Write).
WWrite(f) ==
    /\ wfile[f] # "fresh"
    /\ wfile' = [wfile EXCEPT ![f] = "fresh"]
    /\ UNCHANGED <<sweepOthers, wInterval, wcancel, wpc, wlist, wchan,
                   wfired, sweepHistory>>

\* Cache file f becomes stale: its TTL passes or its original changes.
WStale(f) ==
    /\ wfile[f] = "fresh"
    /\ wfile' = [wfile EXCEPT ![f] = "stale"]
    /\ UNCHANGED <<sweepOthers, wInterval, wcancel, wpc, wlist, wchan,
                   wfired, sweepHistory>>

SweeperStep ==
    \/ WFirstSweep
    \/ WCheck
    \/ WVisit
    \/ WWalkEnd
    \/ WSelectTick

SweepNext ==
    \/ WStart
    \/ WTick
    \/ SweeperStep
    \/ WSelectDone
    \/ WCancel
    \/ \E f \in SweepFiles : WWrite(f)
    \/ \E f \in SweepFiles : WStale(f)

\* The goroutine is scheduled again and again; a select with ctx.Done()
\* ready chooses at random among its ready cases, so it cannot choose
\* ticker.C for ever.
SweepFairness == WF_vars(SweeperStep) /\ SF_vars(WSelectDone)

\* ===================================================================
\* SpecBuild: the locked section of handleResize and Manager.Write on
\* cache_dir/<geometry>/<file>, against one run of cleanupOnce
\* ===================================================================
\* Faults of the request (processor.Resize, EnsureParent, os.WriteFile,
\* os.Rename) and of the sweep (os.Stat(root), d.Info(), the os.Stat of
\* lookupOriginalInfo, os.Remove of a file).
BuildFaults == {"none", "encode", "mkdir", "tmp", "rename",
                "walk", "info", "origstat", "remove"}

\* The request of SpecBuild and the bytes of an entry built earlier.
Builder == 1
OldBody == Resize(2)

NoEntry == [state |-> "absent", content |-> 0]
NoTmp == [exists |-> FALSE, content |-> 0]
NoLists == [mem |-> EmptyList, hot |-> EmptyList]

\* Memory tier and hot-set as an earlier Manager.Write of OldBody left them.
ListsAfterWrite(dep) ==
    IF memoryEnabled(dep)
    THEN markHot([NoLists EXCEPT !.mem =
                     memStore(EmptyList, MemoryCacheSize(dep),
                              MaxMemoryChunk(dep), CacheKey, OldBody, 1)],
                 dep, CacheKey, Size(OldBody))
    ELSE NoLists

bFs == <<droot, dsub, dfile, dtmp>>
bReq == <<bpc, bresp, bwrite, bpre>>
bSweep == <<swpc, swdirs, swlist, swacted>>
bCfg == <<bdep, bfault>>
bLock == <<locks, mheld, mref>>
bRest == <<buildOthers, lkey, lpc>>

BuildIdle ==
    /\ bdep = 1
    /\ bfault = "none"
    /\ droot = FALSE
    /\ dsub = FALSE
    /\ dfile = NoEntry
    /\ dtmp = NoTmp
    /\ bmm = NoLists
    /\ bpc = "lock"
    /\ bresp = NoResp
    /\ bwrite = ""
    /\ bpre = [file |-> NoEntry, mm |-> NoLists]
    /\ swpc = "stat"
    /\ swdirs = <<>>
    /\ swlist = <<>>
    /\ swacted = FALSE

BuildInit ==
    /\ bdep \in Deps
    /\ bfault \in BuildFaults
    /\ \/ droot = FALSE /\ dsub = FALSE /\ dfile = NoEntry
       \/ droot = TRUE /\ dsub = FALSE /\ dfile = NoEntry
       \/ droot = TRUE /\ dsub = TRUE /\ dfile = NoEntry
       \/ /\ droot = TRUE
          /\ dsub = TRUE
          /\ dfile \in [state : {"fresh", "stale"}, content : {OldBody}]
    /\ dtmp = NoTmp
    /\ bmm \in IF dfile.state = "absent" THEN {NoLists}
               ELSE {NoLists, ListsAfterWrite(bdep)}
    /\ bpc = "lock"
    /\ bresp = NoResp
    /\ bwrite = ""
    /\ bpre = [file |-> NoEntry, mm |-> NoLists]
    /\ swpc = "stat"
    /\ swdirs = <<>>
    /\ swlist = <<>>
    /\ swacted = FALSE

\* --- the request ---

\* handler.go:155  h.locks.Lock(cachePath): get ...
BLock ==
    /\ bpc = "lock"
    /\ get(Builder, CacheKey)
    /\ bpc' = "wait"
    /\ UNCHANGED <<bRest, mheld, bCfg, bFs, bmm, bresp, bwrite, bpre, bSweep>>

\* ... then mutex.Lock()
BAcquire ==
    /\ bpc = "wait"
    /\ mutexLock(Builder)
    /\ bpc' = "probe2"
    /\ UNCHANGED <<bRest, locks, mref, bCfg, bFs, bmm, bresp, bwrite, bpre,
                   bSweep>>

\* handler.go:157  IsFresh under the lock; a stale or missing file evicts
\* the memory entry
BProbe2 ==
    /\ bpc = "probe2"
    /\ IF dfile.state = "fresh"
       THEN bpc' = "serve2" /\ bmm' = bmm
       ELSE bpc' = "build" /\ bmm' = evictMemory(bmm, bdep, CacheKey)
    /\ UNCHANGED <<bRest, bLock, bCfg, bFs, bresp, bwrite, bpre, bSweep>>

\* handler.go:158-162  tryServeFromCache; false when the file is gone
BServe2 ==
    /\ bpc = "serve2"
    /\ IF dfile.state # "absent"
       THEN bresp' = Served(dfile.content, TRUE) /\ bpc' = "unlock"
       ELSE bresp' = bresp /\ bpc' = "build"
    /\ UNCHANGED <<bRest, bLock, bCfg, bFs, bmm, bwrite, bpre, bSweep>>

\* handler.go:164-183  os.ReadFile and processor.Resize
BEncode ==
    /\ bpc = "build"
    /\ IF bfault = "encode"
       THEN bresp' = Failed(500) /\ bpc' = "unlock" /\ bpre' = bpre
       ELSE /\ bresp' = bresp
            /\ bpc' = "ensure"
            /\ bpre' = [file |-> dfile, mm |-> bmm]
    /\ UNCHANGED <<bRest, bLock, bCfg, bFs, bmm, bwrite, bSweep>>

\* Manager.Write has failed at step: handler.go:185-188 answers 500.
WriteFailed(step) ==
    /\ bwrite' = step
    /\ bresp' = Failed(500)
    /\ bpc' = "unlock"

\* manager.go:83  EnsureParent: os.MkdirAll's first os.Stat(dir)
BEnsure ==
    /\ bpc = "ensure"
    /\ IF bfault = "mkdir" THEN WriteFailed("mkdir")
       ELSE /\ bpc' = IF dsub THEN "wfile" ELSE "mkroot"
            /\ UNCHANGED <<bresp, bwrite>>
    /\ UNCHANGED <<bRest, bLock, bCfg, bFs, bmm, bpre, bSweep>>

\* os.MkdirAll on the parent: cache_dir is made when it is missing
BMkRoot ==
    /\ bpc = "mkroot"
    /\ droot' = TRUE
    /\ bpc' = "mkdir"
    /\ UNCHANGED <<bRest, bLock, bCfg, dsub, dfile, dtmp, bmm, bresp, bwrite,
                   bpre, bSweep>>

\* os.Mkdir(dir): ENOENT when cache_dir is gone again
BMkDir ==
    /\ bpc = "mkdir"
    /\ IF droot
       THEN /\ dsub' = TRUE
            /\ bpc' = "wfile"
            /\ UNCHANGED <<bresp, bwrite>>
       ELSE /\ WriteFailed("mkdir")
            /\ dsub' = dsub
    /\ UNCHANGED <<bRest, bLock, bCfg, droot, dfile, dtmp, bmm, bpre, bSweep>>

\* manager.go:87  os.WriteFile(tmp, payload): ENOENT when the directory is
\* gone; an I/O fault may leave a partial temporary file
BWriteFile ==
    /\ bpc = "wfile"
    /\ IF ~dsub
       THEN WriteFailed("tmp") /\ dtmp' = dtmp
       ELSE IF bfault = "tmp"
       THEN /\ WriteFailed("tmp")
            /\ dtmp' \in {dtmp, [exists |-> TRUE, content |-> 0]}
       ELSE /\ dtmp' = [exists |-> TRUE, content |-> Resize(1)]
            /\ bpc' = "rename"
            /\ UNCHANGED <<bresp, bwrite>>
    /\ UNCHANGED <<bRest, bLock, bCfg, droot, dsub, dfile, bmm, bpre, bSweep>>

\* Mutant: a failed rename leaves the temporary file behind.
BRenameKeepsTmp ==
    /\ bpc = "rename"
    /\ IF bfault = "rename" \/ ~dtmp.exists
       THEN /\ WriteFailed("rename")
            /\ UNCHANGED <<dtmp, dfile>>
       ELSE /\ dfile' = [state |-> "fresh", content |-> dtmp.content]
            /\ dtmp' = NoTmp
            /\ bpc' = "store"
            /\ UNCHANGED <<bresp, bwrite>>
    /\ UNCHANGED <<bRest, bLock, bCfg, droot, dsub, bmm, bpre, bSweep>>

\* manager.go:90-93  os.Rename(tmp, cachePath); on error os.Remove(tmp)
BRename ==
    /\ bpc = "rename"
    /\ IF bfault = "rename" \/ ~dtmp.exists
       THEN /\ WriteFailed("rename")
            /\ dtmp' = NoTmp
            /\ dfile' = dfile
       ELSE /\ dfile' = [state |-> "fresh", content |-> dtmp.content]
            /\ dtmp' = NoTmp
            /\ bpc' = "store"
            /\ UNCHANGED <<bresp, bwrite>>
    /\ UNCHANGED <<bRest, bLock, bCfg, droot, dsub, bmm, bpre, bSweep>>

\* manager.go:94-99  with a memory tier: os.Stat, memory.store, markHot
BStore ==
    /\ bpc = "store"
    /\ bmm' = IF memoryEnabled(bdep) /\ dfile.state # "absent"
              THEN markHot([bmm EXCEPT !.mem =
                               memStore(bmm.mem, MemoryCacheSize(bdep),
                                        MaxMemoryChunk(bdep), CacheKey,
                                        Resize(1), 1)],
                           bdep, CacheKey, Size(Resize(1)))
              ELSE bmm
    /\ bwrite' = "ok"
    /\ bpc' = "serve3"
    /\ UNCHANGED <<bRest, bLock, bCfg, bFs, bresp, bpre, bSweep>>

\* handler.go:190-195  tryServeFromCache on the file just written
BServe3 ==
    /\ bpc = "serve3"
    /\ bresp' = IF dfile.state # "absent" THEN Served(dfile.content, FALSE)
                ELSE Failed(500)
    /\ bpc' = "unlock"
    /\ UNCHANGED <<bRest, bLock, bCfg, bFs, bmm, bwrite, bpre, bSweep>>

\* deferred release(): mutex.Unlock() ...
BUnlock ==
    /\ bpc = "unlock"
    /\ mutexUnlock(Builder)
    /\ bpc' = "release"
    /\ UNCHANGED <<bRest, locks, mref, bCfg, bFs, bmm, bresp, bwrite, bpre,
                   bSweep>>

\* ... then k.release(key, mutex)
BRelease ==
    /\ bpc = "release"
    /\ release(Builder, CacheKey)
    /\ bpc' = "done"
    /\ UNCHANGED <<bRest, mheld, bCfg, bFs, bmm, bresp, bwrite, bpre, bSweep>>

\* --- the environment: the original is touched, the entry is outdated ---
BTouch ==
    /\ dfile.state = "fresh"
    /\ dfile' = [dfile EXCEPT !.state = "stale"]
    /\ UNCHANGED <<bRest, bLock, bCfg, droot, dsub, dtmp, bmm, bReq, bSweep>>

\* --- the sweeper ---

\* manager.go:170-176  os.Stat(root): nothing to do without cache_dir; any
\* other error is returned
SwStat ==
    /\ swpc = "stat"
    /\ swpc' = IF bfault = "walk" THEN "aborted"
               ELSE IF droot THEN "root" ELSE "done"
    /\ UNCHANGED <<bRest, bLock, bCfg, bFs, bmm, bReq, swdirs, swlist,
                   swacted>>

\* WalkDir on cache_dir: the callback collects it, ReadDir lists it
SwRoot ==
    /\ swpc = "root"
    /\ swdirs' = <<"root">>
    /\ swpc' = IF dsub THEN "sub" ELSE "rmdirs"
    /\ UNCHANGED <<bRest, bLock, bCfg, bFs, bmm, bReq, swlist, swacted>>

\* WalkDir on cache_dir/<geometry>: collected, then listed in lexical order
SwSub ==
    /\ swpc = "sub"
    /\ swdirs' = swdirs \o <<"sub">>
    /\ swlist' = (IF dfile.state # "absent" THEN <<"file">> ELSE <<>>)
                   \o (IF dtmp.exists THEN <<"tmp">> ELSE <<>>)
    /\ swpc' = "files"
    /\ UNCHANGED <<bRest, bLock, bCfg, bFs, bmm, bReq, swacted>>

\* manager.go:188-225  the callback on a file: a name that is not an
\* allowed cache extension (.tmp) is skipped; an error of d.Info() is
\* returned to WalkDir, which ends the walk, and cleanupOnce returns it
\* (manager.go:226-228); an error of lookupOriginalInfo other than
\* ErrNotExist keeps the file; else the checks against the original decide
\* on removal
SwInspect ==
    /\ swpc = "files"
    /\ swlist # <<>>
    /\ IF Head(swlist) = "file" /\ bfault = "info"
       THEN swpc' = "aborted" /\ swlist' = swlist
       ELSE IF /\ Head(swlist) = "file"
               /\ dfile.state = "stale"
               /\ bfault # "origstat"
       THEN swpc' = "remove" /\ swlist' = swlist
       ELSE swpc' = "files" /\ swlist' = Tail(swlist)
    /\ UNCHANGED <<bRest, bLock, bCfg, bFs, bmm, bReq, swdirs, swacted>>

\* manager.go:328-339  removeCacheFile: os.Remove of what the name holds
\* now, then drop; nothing more when the file is gone or os.Remove fails
\* (the caller logs the error and returns nil)
SwRemove ==
    /\ swpc = "remove"
    /\ IF dfile.state # "absent" /\ bfault # "remove"
       THEN /\ dfile' = NoEntry
            /\ bmm' = drop(bmm, bdep, CacheKey)
            /\ swacted' = TRUE
       ELSE UNCHANGED <<dfile, bmm, swacted>>
    /\ swlist' = Tail(swlist)
    /\ swpc' = "files"
    /\ UNCHANGED <<bRest, bLock, bCfg, droot, dsub, dtmp, bReq, swdirs>>

SwFilesEnd ==
    /\ swpc = "files"
    /\ swlist = <<>>
    /\ swpc' = "rmdirs"
    /\ UNCHANGED <<bRest, bLock, bCfg, bFs, bmm, bReq, swdirs, swlist,
                   swacted>>

\* manager.go:230-238  os.Remove of the collected directories, deepest
\* first, the root left out: an empty directory goes
SwRmDirs ==
    /\ swpc = "rmdirs"
    /\ IF /\ Len(swdirs) = 2
          /\ dsub
          /\ dfile.state = "absent"
          /\ ~dtmp.exists
       THEN dsub' = FALSE /\ swacted' = TRUE
       ELSE UNCHANGED <<dsub, swacted>>
    /\ swpc' = "rmroot"
    /\ UNCHANGED <<bRest, bLock, bCfg, droot, dfile, dtmp, bmm, bReq, swdirs,
                   swlist>>

\* manager.go:239-241  os.Remove(root): an empty cache_dir goes
SwRmRoot ==
    /\ swpc = "rmroot"
    /\ IF droot /\ ~dsub
       THEN droot' = FALSE /\ swacted' = TRUE
       ELSE UNCHANGED <<droot, swacted>>
    /\ swpc' = "done"
    /\ UNCHANGED <<bRest, bLock, bCfg, dsub, dfile, dtmp, bmm, bReq, swdirs,
                   swlist>>

BuildNext ==
    \/ BLock
    \/ BAcquire
    \/ BProbe2
    \/ BServe2
    \/ BEncode
    \/ BEnsure
    \/ BMkRoot
    \/ BMkDir
    \/ BWriteFile
    \/ BRename
    \/ BStore
    \/ BServe3
    \/ BUnlock
    \/ BRelease
    \/ BTouch
    \/ SwStat
    \/ SwRoot
    \/ SwSub
    \/ SwInspect
    \/ SwRemove
    \/ SwFilesEnd
    \/ SwRmDirs
    \/ SwRmRoot

\* ===================================================================
\* SpecMem: memoryCache with items and order, and the Manager calls on it
\* ===================================================================
NumPaths == 3       \* cache paths
MaxPayload == 3     \* longest payload, longer than MemLimit
MaxNow == 3         \* last clock value

TPaths == 1..NumPaths

\* The bytes Resize produces at time t for a payload of n bytes.
PayloadOf(n, t) == [i \in 1..n |-> t]

\* Configurations that Config.Validate accepts: with a memory tier
\* max_memory_chunk does not exceed memory_cache_size; 0 is unset.
Configs ==
    {cf \in [limit : {0, MemLimit}, chunk : {0, MemLimit - 1},
             ttl : {0, CacheTTL}, hot : {0, HotLimit}] :
        cf.limit > 0 => cf.chunk <= cf.limit}

\* newMemoryCache; with limit 0 it stands for the nil *memoryCache, on
\* which every method returns at once.
newMemoryCache(limit, chunk) ==
    [limit |-> limit, chunk |-> chunk, used |-> 0, items |-> <<>>,
     order |-> <<>>]

\* NewManager
NewManager(cf) ==
    [memory |-> IF cf.limit > 0
                THEN newMemoryCache(cf.limit,
                                    IF cf.chunk <= 0 \/ cf.chunk > cf.limit
                                    THEN cf.limit ELSE cf.chunk)
                ELSE newMemoryCache(0, 0),
     hot |-> EmptyList]

\* memoryCache.removeElement
removeElement(c, e) ==
    [c EXCEPT !.items = [k \in DOMAIN c.items \ {e.key} |-> c.items[k]],
              !.order = SelectSeq(c.order, LAMBDA x : x # e),
              !.used = ClampZero(c.used - e.size)]

\* memoryCache.remove
remove(c, key) ==
    IF key \notin DOMAIN c.items THEN c ELSE removeElement(c, c.items[key])

\* Mutant: the limit is enforced from the front of the recency list.
RECURSIVE enforceLimitFront(_)
enforceLimitFront(c) ==
    IF c.limit > 0 /\ c.used > c.limit /\ c.order # <<>>
    THEN enforceLimitFront(removeElement(c, c.order[1]))
    ELSE c

\* memoryCache.enforceLimitLocked
RECURSIVE enforceLimitLocked(_)
enforceLimitLocked(c) ==
    IF c.limit > 0 /\ c.used > c.limit /\ c.order # <<>>
    THEN enforceLimitLocked(removeElement(c, c.order[Len(c.order)]))
    ELSE c

\* Mutant: the chunk cap is not applied.
storeNoChunk(c, key, bytes, modTime) ==
    LET size == Len(bytes) IN
    IF c.limit <= 0 THEN c
    ELSE IF size = 0 THEN remove(c, key)
    ELSE IF size > c.limit THEN c
    ELSE LET gone == remove(c, key)
             entry == [key |-> key, payload |-> bytes, size |-> size,
                       modTime |-> modTime]
         IN  enforceLimitLocked(
                 [gone EXCEPT !.order = <<entry>> \o gone.order,
                              !.items = (key :> entry) @@ gone.items,
                              !.used = gone.used + size])

\* memoryCache.store
store(c, key, bytes, modTime) ==
    LET size == Len(bytes) IN
    IF c.limit <= 0 THEN c
    ELSE IF size = 0 THEN remove(c, key)
    ELSE IF c.chunk > 0 /\ size > c.chunk THEN c
    ELSE IF size > c.limit THEN c
    ELSE LET gone == remove(c, key)
             entry == [key |-> key, payload |-> bytes, size |-> size,
                       modTime |-> modTime]
         IN  enforceLimitLocked(
                 [gone EXCEPT !.order = <<entry>> \o gone.order,
                              !.items = (key :> entry) @@ gone.items,
                              !.used = gone.used + size])

\* memoryCache.load: the entry found (hit, payload, size) and the cache
\* afterwards; originMod 0 is the zero time.
load(c, key, originMod, ttl, clock) ==
    IF c.limit <= 0 \/ key \notin DOMAIN c.items
    THEN [hit |-> FALSE, payload |-> <<>>, size |-> 0, c |-> c]
    ELSE LET entry == c.items[key] IN
         IF originMod # 0 /\ originMod > entry.modTime
         THEN [hit |-> FALSE, payload |-> <<>>, size |-> 0,
               c |-> removeElement(c, entry)]
         ELSE IF ttl > 0 /\ clock - entry.modTime > ttl
         THEN [hit |-> FALSE, payload |-> <<>>, size |-> 0,
               c |-> removeElement(c, entry)]
         ELSE [hit |-> TRUE, payload |-> entry.payload, size |-> entry.size,
               c |-> [c EXCEPT !.order =
                         <<entry>> \o SelectSeq(c.order,
                                                LAMBDA x : x # entry)]]

\* Mutant: a hit does not mark the hot-set.
LoadMemoryNoMark(m, cf, path, originMod, clock) ==
    IF m.memory.limit <= 0
    THEN [hit |-> FALSE, payload |-> <<>>, m |-> m]
    ELSE LET r == load(m.memory, path, originMod, cf.ttl, clock) IN
         [hit |-> r.hit, payload |-> r.payload,
          m |-> [m EXCEPT !.memory = r.c]]

\* Manager.LoadMemory: originMod is the original's mtime, 0 when the
\* original info is nil
LoadMemory(m, cf, path, originMod, clock) ==
    IF m.memory.limit <= 0
    THEN [hit |-> FALSE, payload |-> <<>>, m |-> m]
    ELSE LET r == load(m.memory, path, originMod, cf.ttl, clock) IN
         IF ~r.hit
         THEN [hit |-> FALSE, payload |-> <<>>,
               m |-> [m EXCEPT !.memory = r.c]]
         ELSE [hit |-> TRUE, payload |-> r.payload,
               m |-> [m EXCEPT !.memory = r.c,
                               !.hot = hotMark(m.hot, cf.hot, path, r.size)]]

\* Mutant: a stale verdict leaves the memory entry in place.
IsFreshOnNoEvict(m, cf, f, path, originMod, clock) ==
    [ok |-> FreshPred(f.exists, f.mtime, originMod, cf.ttl, clock), m |-> m]

\* Manager.IsFresh on the os.Stat result f of cachePath: the verdict and
\* the Manager after evictMemory
IsFreshOn(m, cf, f, path, originMod, clock) ==
    LET ok == FreshPred(f.exists, f.mtime, originMod, cf.ttl, clock) IN
    [ok |-> ok,
     m |-> IF ok THEN m ELSE [m EXCEPT !.memory = remove(m.memory, path)]]

\* Manager.Write after its rename: os.Stat, memory.store and markHot
WriteStored(m, cf, path, bytes, mtime) ==
    IF m.memory.limit <= 0 THEN m
    ELSE [m EXCEPT !.memory = store(m.memory, path, bytes, mtime),
                   !.hot = hotMark(m.hot, cf.hot, path, Len(bytes))]

NoCall == [op |-> "init", key |-> 0, ok |-> FALSE, evicted |-> 0]

MemIdle ==
    /\ tcfg = [limit |-> 0, chunk |-> 0, ttl |-> 0, hot |-> 0]
    /\ tman = NewManager(tcfg)
    /\ tnow = 0
    /\ tres = NoCall

MemInit ==
    /\ tcfg \in Configs
    /\ tman = NewManager(tcfg)
    /\ tnow = 1
    /\ tres = NoCall

\* The entries of the recency list other than key's.
Others(c, key) == SelectSeq(c.order, LAMBDA x : x.key # key)

\* Manager.Write(path, payload) without I/O fault; the file's mtime is the
\* clock
TWrite(path, n) ==
    LET bytes == PayloadOf(n, tnow)
        after == WriteStored(tman, tcfg, path, bytes, tnow)
    IN  /\ tman' = after
        /\ tres' = [NoCall EXCEPT
                      !.op = "Write", !.key = path, !.ok = TRUE,
                      !.evicted = Len(Others(tman.memory, path))
                                    - Len(Others(after.memory, path))]
        /\ UNCHANGED <<tcfg, tnow>>

\* What os.Stat(cachePath) can return: an error, or a file written earlier.
CacheStats ==
    {[exists |-> FALSE, mtime |-> 0]}
        \cup [exists : {TRUE}, mtime : 1..tnow]

\* Manager.IsFresh(path, original) with f the result of its os.Stat
TIsFresh(path, f, originMod) ==
    LET r == IsFreshOn(tman, tcfg, f, path, originMod, tnow) IN
    /\ tman' = r.m
    /\ tres' = [NoCall EXCEPT !.op = "IsFresh", !.key = path, !.ok = r.ok]
    /\ UNCHANGED <<tcfg, tnow>>

\* Manager.LoadMemory(path, original)
TLoadMemory(path, originMod) ==
    LET r == LoadMemory(tman, tcfg, path, originMod, tnow) IN
    /\ tman' = r.m
    /\ tres' = [NoCall EXCEPT !.op = "LoadMemory", !.key = path,
                              !.ok = r.hit]
    /\ UNCHANGED <<tcfg, tnow>>

\* Manager.removeCacheFile by the sweeper: after os.Remove, Manager.drop
TDrop(path) ==
    /\ tman' = [tman EXCEPT !.memory = remove(tman.memory, path),
                            !.hot = listRemove(tman.hot, path)]
    /\ tres' = [NoCall EXCEPT !.op = "drop", !.key = path]
    /\ UNCHANGED <<tcfg, tnow>>

TTick ==
    /\ tnow < MaxNow
    /\ tnow' = tnow + 1
    /\ tres' = NoCall
    /\ UNCHANGED <<tcfg, tman>>

MemNext ==
    \/ \E path \in TPaths, n \in 0..MaxPayload :
          TWrite(path, n) /\ UNCHANGED memOthers
    \/ \E path \in TPaths, f \in CacheStats, originMod \in 0..tnow :
          TIsFresh(path, f, originMod) /\ UNCHANGED memOthers
    \/ \E path \in TPaths, originMod \in 0..tnow :
          TLoadMemory(path, originMod) /\ UNCHANGED memOthers
    \/ \E path \in TPaths : TDrop(path) /\ UNCHANGED memOthers
    \/ TTick /\ UNCHANGED memOthers

\* ===================================================================
\* SpecHot: hotCache.mark / protect / remove, call by call
\* ===================================================================
HotCap == 3         \* storage_hot_cache_size of the hot-set

\* Sizes a caller passes: none, fitting ones, and one above the limit.
HotSizes == 0..(HotCap + 1)

NoHotCall == [op |-> "init", key |-> 0, size |-> 0, had |-> FALSE,
              ok |-> FALSE]

HotIdle ==
    /\ hset = EmptyList
    /\ hres = NoHotCall

\* newHotCache(limit)
HotInit == HotIdle

\* Manager.markHot(path, size) -> hotCache.mark
HMark(key, size) ==
    /\ hset' = hotMark(hset, HotCap, key, size)
    /\ hres' = [op |-> "mark", key |-> key, size |-> size,
                had |-> key \in ListKeys(hset), ok |-> TRUE]

\* Manager.shouldKeepHot(path, size) -> hotCache.protect
HProtect(key, size) ==
    LET r == hotProtect(hset, HotCap, key, size) IN
    /\ hset' = r.list
    /\ hres' = [op |-> "protect", key |-> key, size |-> size,
                had |-> key \in ListKeys(hset), ok |-> r.ok]

\* Manager.drop(path) -> hotCache.remove
HRemove(key) ==
    /\ hset' = listRemove(hset, key)
    /\ hres' = [op |-> "remove", key |-> key, size |-> 0,
                had |-> key \in ListKeys(hset), ok |-> TRUE]

HotNext ==
    \/ \E key \in TPaths, size \in HotSizes :
          HMark(key, size) /\ UNCHANGED hotOthers
    \/ \E key \in TPaths, size \in HotSizes :
          HProtect(key, size) /\ UNCHANGED hotOthers
    \/ \E key \in TPaths : HRemove(key) /\ UNCHANGED hotOthers


\* ===================================================================
\* SpecKey: what handleResize derives from a request before it probes the
\* cache: geometry, format, source file and cache path. Names are written
\* by their dot-separated parts.
\* ===================================================================
KeySlots == {1, 2}

KeyGeometries ==
    {<<"2", "x">>, <<"2", "x", "0">>, <<"x", "3">>, <<"2", "x", "3">>}

KeyNames ==
    {<<"a", "jpg">>, <<"a", "jpeg">>, <<"a", "webp">>, <<"a", "png">>,
     <<"a", "avif">>, <<"a", "txt">>, <<"a", "jpg", "webp">>}

KeySources == {<<"a", "jpg">>, <<"a", "jpeg">>, <<"a", "png">>,
               <<"a", "avif">>, <<"a", "jpg", "webp">>}

\* cfg.Rewrites: none, or one rule that sends the requests for one
\* extension to the originals of another.
KeyChains ==
    {<<>>,
     <<[pattern |-> <<"webp">>, replacement |-> <<"jpg">>]>>,
     <<[pattern |-> <<"jpeg">>, replacement |-> <<"jpg">>]>>}

\* handler.go:26-33  extensionToFormat[ext]
formatOf(ext) ==
    IF ext \in {<<"jpg">>, <<"jpeg">>} THEN "jpeg" ELSE ext[1]

NoKey ==
    [status |-> 0, width |-> 0, height |-> 0, format |-> "",
     source |-> <<>>, cacheRel |-> <<>>, cachePath |-> <<>>]

\* handler.go:110-145  the candidate loop with ResolvePaths and os.Stat
RECURSIVE resolveLoop(_, _, _, _)
resolveLoop(rules, files, cands, i) ==
    LET r == ResolvePaths(rules, cands[i].relative) IN
    IF r.err # "" THEN [code |-> 400, source |-> <<>>, cacheRel |-> <<>>]
    ELSE IF r.clean \in files
    THEN [code |-> 200, source |-> r.full,
          cacheRel |-> r.clean \o cands[i].cacheSuffix]
    ELSE IF i = Len(cands)
    THEN [code |-> 404, source |-> <<>>, cacheRel |-> <<>>]
    ELSE resolveLoop(rules, files, cands, i + 1)

\* handler.go:67-147  handleResize up to the cache path
requestKey(rules, files, geometry, relative) ==
    LET g == parseGeometry(geometry) IN
    IF ~g.ok THEN [NoKey EXCEPT !.status = 400]
    ELSE IF ~validateDimensions(g.width, g.height)
    THEN [NoKey EXCEPT !.status = 400]
    ELSE IF ~formatKnown(relative) THEN [NoKey EXCEPT !.status = 415]
    ELSE LET found == resolveLoop(rules, files,
                                  buildSourceCandidates(relative), 1)
         IN  IF found.code # 200 THEN [NoKey EXCEPT !.status = found.code]
             ELSE [status |-> 200, width |-> g.width, height |-> g.height,
                   format |-> formatOf(LowerExt(relative)),
                   source |-> found.source,
                   cacheRel |-> found.cacheRel,
                   cachePath |-> CachePath(g.width, g.height,
                                           found.cacheRel)]

KeyIdle ==
    /\ krules = <<>>
    /\ kbase = {}
    /\ kout = [s \in KeySlots |-> NoKey]

KeyInit ==
    /\ krules \in KeyChains
    /\ kbase \in SUBSET KeySources
    /\ kout = [s \in KeySlots |-> NoKey]

\* GET /resize/<geometry>/<relative>
KRequest(s, geometry, relative) ==
    /\ kout[s] = NoKey
    /\ kout' = [kout EXCEPT ![s] = requestKey(krules, kbase, geometry,
                                              relative)]
    /\ UNCHANGED <<krules, kbase>>

KeyNext ==
    \E s \in KeySlots, geometry \in KeyGeometries, relative \in KeyNames :
        KRequest(s, geometry, relative) /\ UNCHANGED keyOthers


\* ===================================================================
\* The specifications
\* ===================================================================
LockIdle ==
    /\ lkey = [c \in Procs |-> 0]
    /\ lpc = [c \in Procs |-> "idle"]

LockInit ==
    /\ LockerInit
    /\ LockIdle
    /\ ConInit
    /\ SeqIdle
    /\ PathIdle
    /\ FrontIdle
    /\ CondIdle
    /\ SweepIdle
    /\ BuildIdle
    /\ MemIdle
    /\ HotIdle
    /\ KeyIdle

LockNext ==
    \/ \E c \in Procs, k \in Keys : LockEnter(c, k)
    \/ \E c \in Procs : LockAcquire(c)
    \/ \E c \in Procs : ReleaseUnlock(c)
    \/ \E c \in Procs : ReleaseDelete(c)

SpecLock == LockInit /\ [][LockNext]_vars

Init ==
    /\ LockerInit
    /\ LockIdle
    /\ ConInit
    /\ SeqIdle
    /\ PathIdle
    /\ FrontIdle
    /\ CondIdle
    /\ SweepIdle
    /\ BuildIdle
    /\ MemIdle
    /\ HotIdle
    /\ KeyIdle

Next == ConNext

Spec == Init /\ [][Next]_vars

\* The steps of request r.
ReqStep(r) ==
    \/ HStat(r)
    \/ HProbe1(r)
    \/ HServe1(r)
    \/ HLock(r)
    \/ HAcquire(r)
    \/ HProbe2(r)
    \/ HServe2(r)
    \/ HEncode(r)
    \/ HWriteOpen(r)
    \/ HWriteData(r)
    \/ HRename(r)
    \/ HServe3(r)
    \/ HUnlock(r)
    \/ HRelease(r)

\* Every handler goroutine keeps being scheduled; a goroutine in
\* mutex.Lock() takes the mutex once it stays free (each request locks at
\* most once, so the mutex cannot be taken from it for ever).
ConFairness == \A r \in Procs : WF_vars(ReqStep(r))

SpecFair == Init /\ [][Next]_vars /\ ConFairness

SeqSpecInit ==
    /\ LockerInit
    /\ LockIdle
    /\ ConInit
    /\ SeqInit
    /\ PathIdle
    /\ FrontIdle
    /\ CondIdle
    /\ SweepIdle
    /\ BuildIdle
    /\ MemIdle
    /\ HotIdle
    /\ KeyIdle

SpecSeq == SeqSpecInit /\ [][SeqNext]_vars

PathSpecInit ==
    /\ LockerInit
    /\ LockIdle
    /\ ConInit
    /\ SeqIdle
    /\ PathInit
    /\ FrontIdle
    /\ CondIdle
    /\ SweepIdle
    /\ BuildIdle
    /\ MemIdle
    /\ HotIdle
    /\ KeyIdle

SpecPath == PathSpecInit /\ [][PathNext]_vars

FrontSpecInit ==
    /\ LockerInit
    /\ LockIdle
    /\ ConInit
    /\ SeqIdle
    /\ PathIdle
    /\ FrontInit
    /\ CondIdle
    /\ SweepIdle
    /\ BuildIdle
    /\ MemIdle
    /\ HotIdle
    /\ KeyIdle

SpecFront == FrontSpecInit /\ [][FrontNext]_vars

CondSpecInit ==
    /\ LockerInit
    /\ LockIdle
    /\ ConInit
    /\ SeqIdle
    /\ PathIdle
    /\ FrontIdle
    /\ CondInit
    /\ SweepIdle
    /\ BuildIdle
    /\ MemIdle
    /\ HotIdle
    /\ KeyIdle

SpecCond == CondSpecInit /\ [][CondNext]_vars

SweepSpecInit ==
    /\ LockerInit
    /\ LockIdle
    /\ ConInit
    /\ SeqIdle
    /\ PathIdle
    /\ FrontIdle
    /\ CondIdle
    /\ SweepInit
    /\ BuildIdle
    /\ MemIdle
    /\ HotIdle
    /\ KeyIdle

SpecSweep == SweepSpecInit /\ [][SweepNext]_vars /\ SweepFairness

BuildSpecInit ==
    /\ LockerInit
    /\ LockIdle
    /\ ConInit
    /\ SeqIdle
    /\ PathIdle
    /\ FrontIdle
    /\ CondIdle
    /\ SweepIdle
    /\ BuildInit
    /\ MemIdle
    /\ HotIdle
    /\ KeyIdle

SpecBuild == BuildSpecInit /\ [][BuildNext]_vars

MemSpecInit ==
    /\ LockerInit
    /\ LockIdle
    /\ ConInit
    /\ SeqIdle
    /\ PathIdle
    /\ FrontIdle
    /\ CondIdle
    /\ SweepIdle
    /\ BuildIdle
    /\ MemInit
    /\ HotIdle
    /\ KeyIdle

SpecMem == MemSpecInit /\ [][MemNext]_vars

HotSpecInit ==
    /\ LockerInit
    /\ LockIdle
    /\ ConInit
    /\ SeqIdle
    /\ PathIdle
    /\ FrontIdle
    /\ CondIdle
    /\ SweepIdle
    /\ BuildIdle
    /\ MemIdle
    /\ HotInit
    /\ KeyIdle

SpecHot == HotSpecInit /\ [][HotNext]_vars

KeySpecInit ==
    /\ LockerInit
    /\ LockIdle
    /\ ConInit
    /\ SeqIdle
    /\ PathIdle
    /\ FrontIdle
    /\ CondIdle
    /\ SweepIdle
    /\ BuildIdle
    /\ MemIdle
    /\ HotIdle
    /\ KeyInit

SpecKey == KeySpecInit /\ [][KeyNext]_vars

\* ===================================================================
\* Claims
\* ===================================================================

\* Callers whose Lock(k) has returned and whose release closure has not
\* been invoked yet.
Holders(k) == {c \in Procs : lpc[c] = "holding" /\ lkey[c] = k}

\* C1: for every key, at most one caller holds the key at any instant
\* (between its Lock(k) returning and its invoking the release function).
C1_AtMostOneHolder == \A k \in Keys : Cardinality(Holders(k)) <= 1

\* Requests inside the build section of handleResize.
Builders == {r \in Procs : pc[r] \in {"build", "wopen", "wdata", "rename"}}

\* C2: at any instant at most one request is inside the build section for
\* the cache path.
C2_AtMostOneBuilder == Cardinality(Builders) <= 1

\* The scenario of C3: the original is unchanged, the encoder and the cache
\* write never fail, and no sweep removed the file.
Undisturbed == faults = 0 /\ ~touched /\ ~swept

Answered == {r \in Procs : resp[r] # NoResp}

C4_ReadersSeeWholePayload ==
    \A r \in Procs : resp[r].status = 200 => resp[r].body \in written


\* The keys that have an entry in the lock table.
Entries == {k \in Keys : locks[k] # 0}

\* The callers between entering Lock(k) and the end of their release of k.
InFlight(k) == {c \in Procs : lkey[c] = k /\ lpc[c] # "idle"}

\* The callers that hold k or wait for it; a caller that has unlocked the
\* mutex and has not yet run k.release does neither.
HoldOrWait(k) ==
    {c \in Procs : lkey[c] = k /\ lpc[c] \in {"waiting", "holding"}}

\* C19 as stated: an entry for k exists only while a caller is between
\* entering Lock(k) and finishing its release; the table has no more
\* entries than there are keys with a holder or waiter, and is empty when
\* no caller holds or waits on any key.
C19_TableBoundedByHolders ==
    /\ \A k \in Keys : locks[k] # 0 => InFlight(k) # {}
    /\ Cardinality(Entries)
         <= Cardinality({k \in Keys : HoldOrWait(k) # {}})
    /\ (\A k \in Keys : HoldOrWait(k) = {}) => Entries = {}

\* C19 amended: the same with the callers in flight (holding, waiting, or
\* between mutex.Unlock and the end of k.release) in place of the holders
\* and waiters.
C19_TableBoundedByInFlight ==
    /\ \A k \in Keys : locks[k] # 0 => InFlight(k) # {}
    /\ Cardinality(Entries)
         <= Cardinality({k \in Keys : InFlight(k) # {}})
    /\ (\A k \in Keys : InFlight(k) = {}) => Entries = {}

\* C19 witness: both keys have an entry and callers in flight, one of the
\* callers being between mutex.Unlock and k.release.
C19_Witness ==
    /\ Entries = Keys
    /\ \A k \in Keys : InFlight(k) # {}
    /\ \E c \in Procs : lpc[c] = "releasing"

\* Caller b is blocked in mutex.Lock(): it waits on a lock object that
\* another caller holds.
Blocked(b) ==
    /\ lpc[b] = "waiting"
    /\ mheld[mref[b]] # 0
    /\ mheld[mref[b]] # b

HoldsMutex(r) == \E m \in MutexIds : mheld[m] = r

\* The handler of r has returned with nothing locked and no reference left.
ReturnedUnlocked(r) == pc[r] = "done" /\ ~HoldsMutex(r) /\ mref[r] = 0

\* C24: a request holds the keyed lock only inside the locked section of
\* handleResize and has released it when the handler returns, whichever
\* way it leaves (fresh re-probe, encoder or write failure, failure to
\* reopen, success); a request blocked in Lock(k) leaves its wait only by
\* acquiring the lock, and under fair scheduling every request returns
\* with the lock released, so every blocked request does acquire it.
C24_LockAlwaysReleased ==
    /\ [](\A r \in Procs :
            /\ pc[r] = "done" => ReturnedUnlocked(r)
            /\ HoldsMutex(r) =>
                  pc[r] \in {"probe2", "serve2", "build", "wopen", "wdata",
                             "rename", "serve3", "unlock"})
    /\ [][\A r \in Procs :
              (pc[r] = "wait" /\ pc'[r] # "wait") =>
                  (pc'[r] = "probe2" /\ \E m \in MutexIds : mheld'[m] = r)
         ]_vars
    /\ <>[](\A r \in Procs : ReturnedUnlocked(r))

\* C24 witness: a request that waited behind a holder whose build failed
\* has itself returned, everything unlocked.
C24_Witness ==
    /\ \A r \in Procs : pc[r] = "done" /\ ~HoldsMutex(r)
    /\ \E r \in Procs : resp[r].status = 500
    /\ \E r \in Procs : resp[r].status = 200 /\ ~resp[r].cached
    /\ \A k \in Keys : locks[k] = 0

\* Request r runs alone: no other request has started.
Alone(r) == \A q \in Procs \ {r} : pc[q] = "start"

C35_RemovesOnlyStale ==
    [][(spc = "remove" /\ spc' = "idle" /\ finalName # 0)
         => orig.mtime > ino[finalName].mtime]_vars

\* C36: whenever IsFresh holds for the cache entry against the original's
\* current stat, the entry's bytes are the encoding of the original's
\* current bytes, also when the original was replaced (other bytes, later
\* mtime) while a build was between reading the source and writing the
\* entry. Entries torn by concurrent writers (C4) are left aside: the
\* entry considered holds a complete encoding.
C36_FreshEntryIsCurrent ==
    (/\ finalName # 0
     /\ \E c \in 1..(1 + MaxTouch) : ino[finalName].content = Resize(c)
     /\ FreshPred(TRUE, ino[finalName].mtime, orig.mtime, 0, now))
       => ino[finalName].content = Resize(orig.content)

\* ---- claims on SpecBuild ----

WriteReturnedNil == bwrite = "ok" /\ ~swacted

HoldsPayload(l, body) ==
    /\ CacheKey \in ListKeys(l)
    /\ EntryOf(l, CacheKey).payload = body
    /\ EntryOf(l, CacheKey).modTime = 1

\* C27: after Manager.Write(cachePath, payload) returns nil the file holds
\* exactly the payload and cachePath.tmp is gone; with the memory tier
\* enabled and a payload within max_memory_chunk the tier holds the payload
\* with the file's mtime; and with storage_hot_cache_size > 0 and a
\* non-empty payload cachePath is marked in the hot-set on every
\* successful write.
C27_WriteEffects ==
    WriteReturnedNil =>
        /\ dfile.state # "absent"
        /\ dfile.content = Resize(1)
        /\ ~dtmp.exists
        /\ memoryEnabled(bdep) => HoldsPayload(bmm.mem, Resize(1))
        /\ hotEnabled(bdep) => CacheKey \in ListKeys(bmm.hot)

WriteReturnedError == bwrite \in {"mkdir", "tmp", "rename"}

LockReleased ==
    /\ locks[CacheKey] = 0
    /\ mref[Builder] = 0
    /\ \A m \in MutexIds : mheld[m] # Builder

\* C28: when Manager.Write fails (parent creation, temporary write or
\* rename) the request answers 500; cachePath is as it was (present with
\* its old bytes, or absent) and the memory tier and hot-set are as they
\* were when Write was entered, as long as the sweeper has removed
\* nothing; after a rename failure the temporary file is gone; and the
\* request goes on to its deferred release only, so that the keyed lock
\* is released when the handler has returned.
C28_FailedWriteLeavesNoTrace ==
    WriteReturnedError =>
        /\ bresp = Failed(500)
        /\ bpc \in {"unlock", "release", "done"}
        /\ bpc = "done" => LockReleased
        /\ bwrite = "rename" => ~dtmp.exists
        /\ ~swacted =>
              /\ dfile.content = bpre.file.content
              /\ (dfile.state = "absent") = (bpre.file.state = "absent")
              /\ bmm = bpre.mm

\* A rename fault struck a rebuild of a stale entry that was hot: the old
\* bytes and the hot mark are still there after the handler has returned.
C28_Witness ==
    /\ bwrite = "rename"
    /\ bpc = "done"
    /\ ~swacted
    /\ dfile.content = OldBody
    /\ CacheKey \in ListKeys(bmm.hot)
    /\ bresp.status = 500

\* C33: a failure on one file during a sweep (its metadata cannot be read,
\* its original cannot be stat'ed, it cannot be removed) is logged and the
\* sweep goes on to the next file and to its directory-removal phase; a
\* sweep is given up only when the walk on cache_dir cannot start, that is
\* before any directory has been visited.
C33_FileFailureKeepsSweeping ==
    swpc = "aborted" => swdirs = <<>>

\* ---- claims on SpecMem ----

\* The step is a call of op on path.
Called(op, path) == tres'.op = op /\ tres'.key = path

\* The memory entries of the other cache paths are what they were.
SameOthers(path) ==
    /\ \A k \in TPaths \ {path} :
          /\ (k \in DOMAIN tman.memory.items)
                = (k \in DOMAIN tman'.memory.items)
          /\ k \in DOMAIN tman.memory.items
                => tman'.memory.items[k] = tman.memory.items[k]
    /\ Others(tman'.memory, path) = Others(tman.memory, path)

\* The freshness predicate of the specification on a modification time.
FreshAt(mtime, originMod) ==
    /\ originMod = 0 \/ originMod <= mtime
    /\ tcfg.ttl = 0 \/ tnow - mtime <= tcfg.ttl

\* C25: IsFresh(cachePath, original) returns true iff the cache file
\* exists, the original's mtime is zero or not later than the file's, and
\* the TTL is 0 or the file's age is within it; after a false result the
\* memory tier has no entry for cachePath; the call changes neither the
\* other paths' memory entries nor the hot-set.
C25_IsFreshVerdict ==
    [][\A path \in TPaths, f \in CacheStats, originMod \in 0..tnow :
          (Called("IsFresh", path) /\ TIsFresh(path, f, originMod)) =>
              /\ tres'.ok = (f.exists /\ FreshAt(f.mtime, originMod))
              /\ ~tres'.ok => path \notin DOMAIN tman'.memory.items
              /\ tman'.hot = tman.hot
              /\ SameOthers(path)]_vars

\* IsFresh has answered false for a path while the memory tier and the
\* hot-set hold other entries.
C25_Witness ==
    /\ tres.op = "IsFresh"
    /\ ~tres.ok
    /\ tres.key \notin DOMAIN tman.memory.items
    /\ tman.memory.order # <<>>
    /\ tres.key \in ListKeys(tman.hot)

\* C26: with the memory tier enabled LoadMemory(cachePath, original) hits,
\* returning the stored payload, iff an entry exists, the original's mtime
\* is zero or not later than the entry's, and the TTL is 0 or the entry's
\* age is within it; on a hit the entry becomes the most recently used and
\* the hot-set is marked (the path is its newest mark when the hot-set has
\* room for the entry); on a miss no entry is left for the path; with the
\* tier disabled every call misses.
C26_LoadMemoryVerdict ==
    [][\A path \in TPaths, originMod \in 0..tnow :
          (Called("LoadMemory", path) /\ TLoadMemory(path, originMod)) =>
              LET c == tman.memory
                  r == LoadMemory(tman, tcfg, path, originMod, tnow)
              IN  /\ tcfg.limit <= 0 => ~tres'.ok
                  /\ tcfg.limit > 0 =>
                        tres'.ok = (/\ path \in DOMAIN c.items
                                    /\ FreshAt(c.items[path].modTime,
                                               originMod))
                  /\ tres'.ok =>
                        /\ r.payload = c.items[path].payload
                        /\ tman'.memory.order[1] = c.items[path]
                        /\ tcfg.hot >= c.items[path].size =>
                              /\ tman'.hot.order # <<>>
                              /\ tman'.hot.order[1] =
                                    [key |-> path,
                                     size |-> c.items[path].size]
                  /\ ~tres'.ok => path \notin DOMAIN tman'.memory.items
                  /\ SameOthers(path)]_vars

\* LoadMemory has hit on an entry that is now in front of another one,
\* and in front of the hot-set.
C26_Witness ==
    /\ tres.op = "LoadMemory"
    /\ tres.ok
    /\ Len(tman.memory.order) >= 2
    /\ tman.memory.order[1].key = tres.key
    /\ tman.hot.order # <<>>
    /\ tman.hot.order[1].key = tres.key

RECURSIVE SumSizes(_)
SumSizes(entries) ==
    IF entries = <<>> THEN 0
    ELSE Head(entries).size + SumSizes(Tail(entries))

\* The key map and the recency list hold the same entries.
MapMatchesList(c) ==
    /\ DOMAIN c.items = {c.order[i].key : i \in DOMAIN c.order}
    /\ Cardinality(DOMAIN c.items) = Len(c.order)
    /\ \A i \in DOMAIN c.order : c.items[c.order[i].key] = c.order[i]

TierInvariants(c, cap) ==
    /\ SumSizes(c.order) = c.used
    /\ c.used <= tcfg.limit
    /\ \A i \in DOMAIN c.order :
          /\ 0 < c.order[i].size
          /\ c.order[i].size = Len(c.order[i].payload)
          /\ c.order[i].size <= cap
    /\ tcfg.limit > 0 => cap <= tcfg.limit
    /\ MapMatchesList(c)

\* C29 as stated: after every store, load and remove the entries' sizes
\* sum to the used counter, which is at most memory_cache_size; every
\* entry has 0 < size <= max_memory_chunk <= memory_cache_size, with
\* max_memory_chunk the configured value; the key map and the recency
\* list hold the same entries.
C29_MemoryInvariants == TierInvariants(tman.memory, tcfg.chunk)

\* C29, amended: the same with the chunk cap NewManager derives, which is
\* memory_cache_size when max_memory_chunk is unset (0).
C29_MemoryInvariantsCap == TierInvariants(tman.memory, tman.memory.chunk)

\* A write has filled the tier of a deployment without max_memory_chunk
\* up to its limit with more than one entry.
C29_Witness ==
    /\ tres.op = "Write"
    /\ tcfg.chunk = 0
    /\ tman.memory.used = tcfg.limit
    /\ Len(tman.memory.order) >= 2

IsPrefixOf(a, b) == Len(a) <= Len(b) /\ SubSeq(b, 1, Len(a)) = a

\* memoryCache.store takes a payload of n bytes into the tier.
Stores(c, n) == c.limit > 0 /\ 0 < n /\ n <= c.chunk

\* C30: the memory tier evicts strictly in least-recently-used order: a
\* store of k and a fresh load of k put k in front; a store that exceeds
\* the limit evicts from the back, one entry at a time and no more than
\* needed, so what stays behind the new entry is the most recently used
\* part of the other entries; the entry just stored is never evicted.
C30_StrictLRU ==
    [][/\ \A path \in TPaths, n \in 0..MaxPayload :
             (/\ Called("Write", path)
              /\ Stores(tman.memory, n)
              /\ TWrite(path, n)) =>
                 LET before == Others(tman.memory, path)
                     after == tman'.memory.order
                     kept == Len(after) - 1
                 IN  /\ after # <<>>
                     /\ after[1].key = path
                     /\ after[1].size = n
                     /\ IsPrefixOf(Tail(after), before)
                     /\ kept < Len(before) =>
                           n + SumSizes(Tail(after)) + before[kept + 1].size
                               > tcfg.limit
       /\ \A path \in TPaths, originMod \in 0..tnow :
             (/\ Called("LoadMemory", path)
              /\ tres'.ok
              /\ TLoadMemory(path, originMod)) =>
                 /\ tman'.memory.order[1].key = path
                 /\ Others(tman'.memory, path) = Others(tman.memory, path)
      ]_vars

\* A write has evicted exactly the least recently used of two other
\* entries.
C30_Witness ==
    /\ tres.op = "Write"
    /\ tres.evicted = 1
    /\ Len(tman.memory.order) = 2
    /\ tman.memory.order[1].key = tres.key

\* C37: memory tier and disk stay coherent. After a successful
\* Manager.Write(path, payload), whatever was written to the path before
\* and whatever the payload's size, the memory tier holds no entry for the
\* path or holds exactly the payload now in the disk file, so that a
\* LoadMemory hit never returns the payload of an earlier Write.
C37_MemoryMatchesDisk ==
    [][\A path \in TPaths, n \in 0..MaxPayload :
         (Called("Write", path) /\ TWrite(path, n)) =>
            (path \in DOMAIN tman'.memory.items =>
               tman'.memory.items[path].payload = PayloadOf(n, tnow))]_vars

\* ---- claims on SpecSeq ----

\* The cache path the last GET resolved to, and the original it used.
LastSrc == SourceOf(base, lastOp.path)
LastCachePath == LastSrc.cacheRel

\* The last operation was a GET that reached the cache (no 404).
LastGetServed == lastOp.kind = "get" /\ LastSrc.found

\* The last GET did not serve the stored entry: it invoked the encoder,
\* rewrote the entry and is logged cached=false; afterwards c.mtime >= o.mtime.
Rebuilt(dep) ==
    /\ lastOp.enc[dep]
    /\ lastOp.resp[dep].status = 200
    /\ ~lastOp.resp[dep].cached
    /\ dstate[dep].cache[LastCachePath].exists
    /\ dstate[dep].cache[LastCachePath].mtime = sclock
    /\ dstate[dep].cache[LastCachePath].mtime >= LastSrc.mtime

\* C5 as stated: a fresh entry exists, the original's mtime is set to a
\* later value, and the next request for the variant rebuilds the entry.
C5_TouchLaterRebuilds ==
    LastGetServed => \A dep \in Deps : lastOp.later[dep] => Rebuilt(dep)

\* C5 amended: the same when the original's new mtime is strictly later
\* than the cache entry's mtime.
C5_TouchNewerRebuilds ==
    LastGetServed => \A dep \in Deps : lastOp.newer[dep] => Rebuilt(dep)

C5_Witness ==
    /\ LastGetServed
    /\ \A dep \in Deps :
          /\ lastOp.newer[dep]
          /\ lastOp.pre[dep].cache[LastCachePath].exists
          /\ Rebuilt(dep)

\* The entry the last GET found was within its TTL.
WithinTTL(dep) ==
    \/ cfgTTL = 0
    \/ sclock - lastOp.pre[dep].cache[LastCachePath].mtime <= cfgTTL

CacheFiles(dep) == {c \in CacheRels : dstate[dep].cache[c].exists}

\* C7: after every step the two deployments, which differ only in
\* memory_cache_size, have produced the same responses and hold the same
\* set of files under cache_dir.
C7_MemoryTierInvisible ==
    /\ lastOp.resp[1] = lastOp.resp[2]
    /\ CacheFiles(1) = CacheFiles(2)

\* ---- the sweep just done, seen from the state before it ----
SweptFile(dep, c) == lastOp.pre[dep].cache[c]

Expired(dep, c) ==
    /\ SweptFile(dep, c).exists
    /\ cfgTTL > 0
    /\ sclock - SweptFile(dep, c).mtime > cfgTTL

WasHot(dep, c) == c \in ListKeys(lastOp.pre[dep].hot)

OriginalMissing(c) ==
    ~BaseStat(base, c).ok /\ ~BaseStat(base, TrimExt(c)).ok

FallbackOnly(dep, c) ==
    /\ SweptFile(dep, c).exists
    /\ ~BaseStat(base, c).ok
    /\ BaseStat(base, TrimExt(c)).ok
    /\ BaseStat(base, TrimExt(c)).mtime <= SweptFile(dep, c).mtime

\* C8 as stated: after a sweep no cache file remains whose original is
\* missing at both places, and a file whose fallback base exists and is not
\* newer is kept.
C8_OrphansRemovedFallbackKept ==
    lastOp.kind = "sweep" =>
      \A dep \in Deps, c \in CacheRels :
        /\ dstate[dep].cache[c].exists => ~OriginalMissing(c)
        /\ FallbackOnly(dep, c) => dstate[dep].cache[c].exists

\* C8 amended: the same for files the sweep did not treat as TTL-expired;
\* a TTL-expired file is kept iff the hot-set protected it, whatever its
\* original.
C8_OrphansRemovedUnlessExpired ==
    lastOp.kind = "sweep" =>
      \A dep \in Deps, c \in CacheRels :
        /\ (dstate[dep].cache[c].exists /\ OriginalMissing(c))
              => (Expired(dep, c) /\ WasHot(dep, c))
        /\ (FallbackOnly(dep, c) /\ ~Expired(dep, c))
              => dstate[dep].cache[c] = SweptFile(dep, c)
        /\ Expired(dep, c) => (dstate[dep].cache[c].exists <=> WasHot(dep, c))

\* C8 witness: a sweep kept an unexpired file that has only its fallback
\* base, in the deployment whose hot-set is empty.
C8_Witness ==
    /\ lastOp.kind = "sweep"
    /\ \E c \in CacheRels :
          /\ FallbackOnly(1, c)
          /\ ~Expired(1, c)
          /\ dstate[1].cache[c].exists

\* C8, the other case: a sweep removed an unexpired file whose original is
\* missing at both places.
C8_WitnessOrphan ==
    /\ lastOp.kind = "sweep"
    /\ \E dep \in Deps, c \in CacheRels :
          /\ SweptFile(dep, c).exists
          /\ ~Expired(dep, c)
          /\ OriginalMissing(c)
          /\ ~dstate[dep].cache[c].exists

\* The TTL-expired files the hot-set protected, last visited first.
RECURSIVE ProtectedFrom(_, _)
ProtectedFrom(dep, i) ==
    IF i > Len(WalkOrder) THEN <<>>
    ELSE ProtectedFrom(dep, i + 1)
         \o (IF Expired(dep, WalkOrder[i]) /\ WasHot(dep, WalkOrder[i])
             THEN <<WalkOrder[i]>> ELSE <<>>)

HotKeySeq(l) == [i \in DOMAIN l.order |-> l.order[i].key]

\* C9: in a sweep with TTL > 0, every allowed-extension cache file older
\* than the TTL is removed, with its memory and hot-set entries, when it is
\* not in the hot-set, and is left on disk and moved to the most recently
\* used position of the hot-set when it is (so the protected files lead the
\* hot-set, the last visited first).
C9_ExpiredRemovedUnlessHot ==
    (lastOp.kind = "sweep" /\ cfgTTL > 0) =>
      \A dep \in Deps :
        /\ \A c \in CacheRels :
             (Expired(dep, c) /\ isAllowedCacheExt(c)) =>
                IF WasHot(dep, c)
                THEN /\ dstate[dep].cache[c] = SweptFile(dep, c)
                     /\ c \in ListKeys(dstate[dep].hot)
                ELSE /\ ~dstate[dep].cache[c].exists
                     /\ c \notin ListKeys(dstate[dep].mem)
                     /\ c \notin ListKeys(dstate[dep].hot)
        /\ LET prot == ProtectedFrom(dep, 1) IN
           SubSeq(HotKeySeq(dstate[dep].hot), 1, Len(prot)) = prot

\* C9 witness: a sweep that protected two expired hot files, the first of
\* which was the most recently used before, and removed nothing of them.
C9_Witness ==
    /\ lastOp.kind = "sweep"
    /\ cfgTTL > 0
    /\ \E dep \in Deps :
          /\ Len(ProtectedFrom(dep, 1)) = 2
          /\ HotKeySeq(lastOp.pre[dep].hot) # HotKeySeq(dstate[dep].hot)

\* C9 second witness state: an expired file outside the hot-set was removed.
C9_WitnessRemoved ==
    /\ lastOp.kind = "sweep"
    /\ \E dep \in Deps, c \in CacheRels :
          Expired(dep, c) /\ ~WasHot(dep, c) /\ ~dstate[dep].cache[c].exists

\* The GET of this path before the last one was answered 200 with the
\* encoding of the bytes the original has now.
PrevServedSameBytes(dep) ==
    /\ lastOp.hadPrev
    /\ lastOp.prev[dep].status = 200
    /\ lastOp.prev[dep].body = Resize(base[LastSrc.source].content)

\* C17 as stated: a variant was served, the original (bytes unchanged) got
\* an mtime newer than the cache entry's, and the next GET answers 200 with
\* an ETag different from the one before and an updated cache mtime.
C17_TouchChangesETag ==
    LastGetServed =>
      \A dep \in Deps :
        (lastOp.newer[dep] /\ PrevServedSameBytes(dep)) =>
           /\ Rebuilt(dep)
           /\ lastOp.resp[dep].etag # lastOp.prev[dep].etag

\* C17 amended: in that case the next GET answers 200 from a rebuilt entry
\* whose mtime is the time of the request, with the same body and the same
\* ETag as before.
C17_TouchKeepsETag ==
    LastGetServed =>
      \A dep \in Deps :
        (lastOp.newer[dep] /\ PrevServedSameBytes(dep)) =>
           /\ Rebuilt(dep)
           /\ lastOp.resp[dep].body = lastOp.prev[dep].body
           /\ lastOp.resp[dep].etag = lastOp.prev[dep].etag

C17_Witness ==
    /\ LastGetServed
    /\ \A dep \in Deps :
          /\ lastOp.newer[dep]
          /\ PrevServedSameBytes(dep)
          /\ lastOp.pre[dep].cache[LastCachePath].mtime < sclock
          /\ dstate[dep].cache[LastCachePath].mtime = sclock
          /\ lastOp.resp[dep].etag = lastOp.prev[dep].etag

\* The sweeper's original of a cache file: base_dir/<rel> or its fallback.
SweptOriginal(c) == lookupOriginalInfo(base, c)

\* A file the sweep visited as a cache entry, not TTL-expired, whose
\* original (or fallback base) exists.
SweptOnMtime(dep, c) ==
    /\ SweptFile(dep, c).exists
    /\ isAllowedCacheExt(c)
    /\ ~Expired(dep, c)
    /\ SweptOriginal(c).ok

\* C32: in a sweep, a cache file that is not TTL-expired and whose original
\* (or fallback base) exists is removed iff the original's mtime is strictly
\* after the file's (equal mtimes keep it); the file is kept, untouched,
\* exactly when IsFresh accepts it for that original.
C32_SweepMtimeRule ==
    lastOp.kind = "sweep" =>
      \A dep \in Deps, c \in CacheRels :
        SweptOnMtime(dep, c) =>
          LET f == SweptFile(dep, c)
              o == SweptOriginal(c)
              accepted == FreshPred(f.exists, f.mtime, o.mtime, cfgTTL,
                                    sclock)
          IN  /\ ~dstate[dep].cache[c].exists <=> o.mtime > f.mtime
              /\ o.mtime = f.mtime => dstate[dep].cache[c] = f
              /\ dstate[dep].cache[c] = f <=> accepted

\* C32 witness: a sweep kept a file exactly as old as its original and
\* removed another one older than its original.
C32_Witness ==
    /\ lastOp.kind = "sweep"
    /\ \E dep \in Deps, c, e \in CacheRels :
          /\ SweptOnMtime(dep, c) /\ SweptOnMtime(dep, e)
          /\ SweptOriginal(c).mtime = SweptFile(dep, c).mtime
          /\ dstate[dep].cache[c].exists
          /\ SweptOriginal(e).mtime > SweptFile(dep, e).mtime
          /\ ~dstate[dep].cache[e].exists

\* The memory tier of the deployment that has one held, before the last
\* GET, an entry for the request's cache path that LoadMemory would return.
MemoryHeldFresh(dep) ==
    /\ lastOp.kind = "get"
    /\ memoryEnabled(dep)
    /\ LastSrc.found
    /\ LastSrc.cacheRel \in ListKeys(lastOp.pre[dep].mem)
    /\ FreshPred(TRUE, EntryOf(lastOp.pre[dep].mem, LastSrc.cacheRel).modTime,
                 LastSrc.mtime, cfgTTL, sclock)

\* C34: handleResize consults the memory tier first and serves a fresh
\* memory hit from the in-memory payload; the disk entry is probed only on
\* a memory miss. Manager.LoadMemory moves the entry it returns to the
\* front of the tier's recency list and marks it in the hot-set, so after
\* a GET that found a fresh memory entry the entry leads both lists.
C34_MemoryProbedFirst ==
    \A dep \in Deps :
      MemoryHeldFresh(dep) =>
        /\ lastOp.resp[dep].status = 200
        /\ dstate[dep].mem.order[1].key = LastSrc.cacheRel
        /\ dstate[dep].hot.order[1].key = LastSrc.cacheRel

\* ---- claims on SpecPath ----

\* p is root itself or a path below it, and has no ".." element.
Inside(root, p) ==
    /\ p = root \/ HasPrefix(p, root \o Slash)
    /\ \A i \in DOMAIN splitSlash(p, <<>>, <<>>) :
          splitSlash(p, <<>>, <<>>)[i] # DotDot

\* The cleaned form of what ResolvePaths was given.
Cleaned == Clean(ApplyRewrites(prules, TrimPrefix(pin, Slash)))

\* C10: for every input string and every rewrite chain, ResolvePaths
\* returns an error exactly when the cleaned path is ".", is ".." or starts
\* with "../" (the handler answers 400), and otherwise an absolute path
\* inside base_dir; CachePath of the returned clean path plus a cache
\* suffix is inside cache_dir.
C10_PathsStayInsideRoots ==
    /\ ppc = "400" <=>
          (/\ ppc \notin {"idle", "start"}
           /\ (\/ Cleaned = Dot
               \/ Cleaned = DotDot
               \/ HasPrefix(Cleaned, <<".", ".", "/">>)))
    /\ ppc \in {"resolved", "cached"} =>
          /\ pres.err = ""
          /\ Head(pres.full) = "/"
          /\ Inside(BaseDir, pres.full)
    /\ ppc = "cached" => Inside(CacheDir, pcp)

\* C10 witness: a rewrite changed the input, the cleaning removed a ".."
\* element, and both paths were produced below their roots.
C10_Witness ==
    /\ ppc = "cached"
    /\ prules # <<>>
    /\ ApplyRewrites(prules, TrimPrefix(pin, Slash)) # TrimPrefix(pin, Slash)
    /\ \E i \in DOMAIN splitSlash(pin, <<>>, <<>>) :
          splitSlash(pin, <<>>, <<>>)[i] = DotDot
    /\ pres.full # BaseDir
    /\ Inside(BaseDir, pres.full)
    /\ Inside(CacheDir, pcp)

\* C10, the rejected case: an input that cleans to a path above the root
\* was answered 400.
C10_WitnessRejected ==
    /\ ppc = "400"
    /\ HasPrefix(Cleaned, <<".", ".", "/">>)

\* The rules of the chain whose pattern matches the input.
Matching(rules, input) ==
    {i \in DOMAIN rules : MatchString(rules[i].pattern, input)}

\* The first matching rule applied once to the input; the input when no
\* rule matches.
FirstMatchApplied(rules, input) ==
    IF Matching(rules, input) = {} THEN input
    ELSE LET rule == rules[Min(Matching(rules, input))]
         IN  ReplaceAllString(rule.pattern, input, rule.replacement)

Trimmed == TrimPrefix(pin, Slash)

\* C18: ResolvePaths trims the leading slash, then rewrites with the first
\* rule of the chain that matches (applied once, to the trimmed input, no
\* later rule applied to its output; no match leaves the path as it is),
\* then cleans and checks for traversal.
C18_FirstMatchOnly ==
    LET clean == Clean(FirstMatchApplied(prules, Trimmed))
    IN  /\ ppc \in {"resolved", "cached"} => pres.clean = clean
        /\ ppc = "400" =>
              \/ clean \in {Dot, DotDot}
              \/ HasPrefix(clean, <<".", ".", "/">>)

\* C18 witness: both rules of the chain match the input and the second
\* matches the output of the first as well; only the first was applied.
C18_Witness ==
    /\ ppc = "resolved"
    /\ Matching(prules, Trimmed) = {1, 2}
    /\ prules[1] # prules[2]
    /\ MatchString(prules[2].pattern, FirstMatchApplied(prules, Trimmed))
    /\ pres.clean = Clean(ReplaceAllString(prules[1].pattern, Trimmed,
                                           prules[1].replacement))
    /\ pin # Trimmed

\* C18, no rule of a non-empty chain matches: the path is only cleaned.
C18_WitnessNoMatch ==
    /\ ppc = "resolved"
    /\ prules # <<>>
    /\ Matching(prules, Trimmed) = {}
    /\ pres.clean = Clean(Trimmed)

\* ---- claims on SpecFront ----

\* The request has been answered.
FrontAnswered == rout # NoOutcome

KnownFormats == {"jpg", "jpeg", "png", "webp", "avif"}

\* The name's final extension, lower-cased, is a known format.
FinalExtKnown(name) ==
    Len(name) >= 2 /\ ToLower(name[Len(name)]) \in KnownFormats

\* The candidate loop was reached: geometry, path and extension passed.
LoopReached == FrontAnswered /\ rout.status \notin {400, 415}

\* Removing the final extension leaves a name with a known extension.
HasSecondCandidate == Len(rpath) >= 3 /\ FinalExtKnown(TrimExt(rpath))

SecondCacheRel == TrimExt(rpath) \o <<ToLower(rpath[Len(rpath)])>>

BuiltFrom(source, cacheRel, n) ==
    /\ rout.status = 200
    /\ rout.source = source
    /\ rout.wrote = cacheRel
    /\ rout.stats = n

\* C11: candidate 0 is the path as given, candidate 1 (present iff the name
\* without its final extension ends in a known format) is that base with
\* the lower-cased removed extension as cache suffix; the first candidate
\* whose stat succeeds is the source and the cache path is its path plus
\* its suffix; not-exist on every candidate is 404, any other stat error
\* is 500.
C11_FirstExistingCandidate ==
    LoopReached =>
      CASE rstat[1] = "ok" -> BuiltFrom(rpath, rpath, 1)
        [] rstat[1] = "error" -> rout.status = 500 /\ rout.stats = 1
        [] rstat[1] = "notexist" /\ ~HasSecondCandidate ->
              rout.status = 404 /\ rout.stats = 1
        [] rstat[1] = "notexist" /\ HasSecondCandidate ->
              CASE rstat[2] = "ok" ->
                      BuiltFrom(TrimExt(rpath), SecondCacheRel, 2)
                [] rstat[2] = "error" -> rout.status = 500
                [] rstat[2] = "notexist" -> rout.status = 404

C11_Witness ==
    /\ LoopReached
    /\ rpath = <<"a", "JPG", "WEBP">>
    /\ rstat = <<"notexist", "ok">>
    /\ rout.source = <<"a", "JPG">>
    /\ rout.wrote = <<"a", "JPG", "webp">>

BothZeroGeometries ==
    {<<"0", "x", "0">>, <<"x">>, <<"0", "x">>, <<"x", "0">>}

\* C13: a request whose geometry has both sides zero or empty is answered
\* 400 before any source lookup: no os.Stat, no keyed lock, no encoder
\* call, no file written under cache_dir.
C13_BothZeroRejected ==
    (FrontAnswered /\ rgeo \in BothZeroGeometries) =>
       /\ rout.status = 400
       /\ rout.stats = 0
       /\ ~rout.locked
       /\ ~rout.enc
       /\ rout.wrote = <<>>

\* One side of the geometry is acceptable against its maximum: it is empty
\* (or, with blankOK, only spaces) and so 0, or a decimal integer from 0 to
\* the maximum.
SideAccepted(side, max, blankOK) ==
    \/ side = <<>>
    \/ blankOK /\ IsBlank(side)
    \/ Atoi(side).ok /\ Atoi(side).value \in 0..max

SideValue(side) == IF Atoi(side).ok THEN Atoi(side).value ELSE 0

GeoLeft == SubSeq(rgeo, 1, Min({i \in DOMAIN rgeo : rgeo[i] = "x"}) - 1)
GeoRight ==
    SubSeq(rgeo, Min({i \in DOMAIN rgeo : rgeo[i] = "x"}) + 1, Len(rgeo))

GeoAccepted(blankOK) ==
    /\ \E i \in DOMAIN rgeo : rgeo[i] = "x"
    /\ SideAccepted(GeoLeft, MaxWidth, blankOK)
    /\ SideAccepted(GeoRight, MaxHeight, blankOK)

GeometryDecides(blankOK) ==
    (FrontAnswered /\ rpath # <<>>) =>
       /\ rout.status = 400 <=> ~GeoAccepted(blankOK)
       /\ rout.status = 200 =>
             rout.prefix = formatGeometryPrefix(SideValue(GeoLeft),
                                                SideValue(GeoRight))

C15_WitnessBoth ==
    /\ rout.status = 400
    /\ rgeo = <<"3", "x">>
    /\ rpath = <<"a", "txt">>

\* ---- claims on SpecCond ----

\* Some comma-separated candidate of header h, spaces around it removed,
\* is the tag: a stretch between commas holding the tag once and otherwise
\* only spaces.
SomeCandidateIs(h, tag) ==
    \E i, j \in DOMAIN h :
       /\ i <= j
       /\ i = 1 \/ h[i - 1] = Comma
       /\ j = Len(h) \/ h[j + 1] = Comma
       /\ \E k \in i..j :
             /\ h[k] = tag
             /\ \A m \in (i..j) \ {k} : h[m] = Space

\* If-Modified-Since is a date and the file's mtime is not after it.
NotModifiedSince(f) ==
    cims.kind = "date" /\ f.mtime <= cims.sec * TicksPerSecond

\* C12: tryServeFromCache answers 304 when a candidate of If-None-Match
\* equals the ETag, otherwise 304 when If-Modified-Since parses and the
\* cache file's mtime is not strictly after it, otherwise 200 with the
\* payload and its Content-Length; every 304 has an empty body and carries
\* ETag, Last-Modified and the immutable Cache-Control.
C12_ConditionalOrder ==
    \A p \in CondPaths :
       cresp[p].served =>
          LET r == cresp[p]
              f == cfile[p]
          IN  /\ r.etag \in HdrChars \ {Comma, Space}
              /\ r.lastModified * TicksPerSecond <= f.mtime
              /\ f.mtime < (r.lastModified + 1) * TicksPerSecond
              /\ r.cacheControl =
                   "public, max-age=31536000, immutable, s-maxage=31536000"
              /\ IF SomeCandidateIs(cinm, r.etag) \/ NotModifiedSince(f)
                 THEN r.status = 304 /\ r.body = <<>>
                 ELSE /\ r.status = 200
                      /\ r.body = f.payload
                      /\ r.contentLength = Len(f.payload)

\* C12 witness: the second candidate, after a space, is the ETag.
C12_Witness ==
    \E p \in CondPaths :
       /\ cresp[p].status = 304
       /\ cims.kind = "none"
       /\ cinm = <<Comma, Space>> \o <<cresp[p].etag>>
       /\ cfile[p].payload = <<1, 2>>

\* C12 witness: no If-None-Match, the mtime equal to the date.
C12_WitnessDate ==
    \E p \in CondPaths :
       /\ cresp[p].status = 304
       /\ cinm = <<>>
       /\ cims = [kind |-> "date", sec |-> 1]
       /\ cfile[p].mtime = TicksPerSecond

\* C16: the ETag is a function of the payload bytes alone: two answers
\* carry the same ETag iff the cache bytes behind them are identical,
\* whatever the cache path, geometry, format, mtime and status (304 or
\* 200) of each, and the body of a 200 is those bytes.
C16_ETagOfBytesAlone ==
    \A p, q \in CondPaths :
       (cresp[p].served /\ cresp[q].served) =>
          /\ cresp[p].etag = cresp[q].etag
               <=> cfile[p].payload = cfile[q].payload
          /\ cresp[p].status = 200 => cresp[p].body = cfile[p].payload

\* C16 witness: the same bytes at two paths with different mtimes, one
\* answered 304 and the other 200, with one ETag.
C16_Witness ==
    /\ cresp["1x1/a.jpg"].status = 304
    /\ cresp["2x2/a.jpg.webp"].status = 200
    /\ cfile["1x1/a.jpg"].mtime # cfile["2x2/a.jpg.webp"].mtime
    /\ cresp["1x1/a.jpg"].etag = cresp["2x2/a.jpg.webp"].etag
    /\ cresp["2x2/a.jpg.webp"].body = cfile["1x1/a.jpg"].payload

\* The answer to an unconditional GET of variant p while its cache file
\* is the one it is now.
PlainAnswer(p) ==
    tryServeFromCache(p, cfile[p], <<>>, [kind |-> "none", sec |-> 0])

\* C40: a request repeated with If-Modified-Since set to the Last-Modified
\* value of an earlier 200 response, without If-None-Match, while the
\* cache entry has not been rewritten, is answered 304, whatever the cache
\* file's mtime, a sub-second part included.
C40_ConditionalRoundTrip ==
    \A p \in CondPaths :
       (/\ cresp[p].served
        /\ PlainAnswer(p).status = 200
        /\ cinm = <<>>
        /\ cims = [kind |-> "date", sec |-> PlainAnswer(p).lastModified])
          => cresp[p].status = 304

\* ---- claims on SpecSweep ----

\* With cleanup_interval = 0 there is no sweeper and nothing is removed.
NoSweeperWhenDisabled ==
    wInterval = 0 =>
       /\ wpc \in {"unstarted", "none"}
       /\ wsweeps = 0
       /\ wremoved = 0

\* With a positive interval the goroutine's first step is a sweep, and
\* every later sweep has taken one tick from the ticker.
SweepPerTick ==
    wInterval > 0 =>
       /\ wpc \in {"unstarted", "first"} => wsweeps = 0
       /\ wpc \in {"walk", "visit", "select", "done"} =>
             wsweeps = 1 + wtaken
       /\ wtaken <= wfired
       /\ wpc # "none"

\* A removal after the cancellation is of the file the sweeper was
\* visiting (past its ctx check) when ctx was cancelled.
OnlyVisitedFileAfterCancel ==
    /\ Cardinality(wlate) <= 1
    /\ \A r \in wlate :
          /\ wcancelAt.pc = "visit"
          /\ r.file = wcancelAt.file
          /\ r.sweep = wcancelAt.sweep

SweeperGone == wpc \in {"none", "done"}

\* C20: cleanup_interval = 0 starts no sweeper and no cache file is ever
\* removed; a positive interval gives one sweep at once and one per tick;
\* after ctx is cancelled the sweeper removes at most the file it is
\* visiting, and it eventually terminates.
C20_SweeperLifecycle ==
    /\ [](NoSweeperWhenDisabled /\ SweepPerTick /\ OnlyVisitedFileAfterCancel)
    /\ (wcancel ~> SweeperGone)

\* C20 witness: a sweeper that swept at start and on a tick, was cancelled
\* while visiting a stale file, removed that file and terminated, another
\* stale file being left.
C20_Witness ==
    /\ wpc = "done"
    /\ wsweeps >= 2
    /\ wlate # {}
    /\ \E f \in SweepFiles : wfile[f] = "stale"

\* C20, the disabled case: StartCleanup has returned without a goroutine
\* and a stale file stays.
C20_WitnessDisabled ==
    /\ wInterval = 0
    /\ wpc = "none"
    /\ wcancel
    /\ \E f \in SweepFiles : wfile[f] = "stale"

\* ---- claims on SpecHot ----

\* key is the most recently used entry of the hot-set, with this size.
AtFront(l, key, size) ==
    /\ Len(l.order) > 0
    /\ l.order[1] = [key |-> key, size |-> size]

\* The entry sizes add up to the used counter, within the limit.
HotAccounted ==
    /\ SumSizes(hset.order) = hset.used
    /\ hset.used <= HotCap
    /\ \A i, j \in DOMAIN hset.order :
          hset.order[i].key = hset.order[j].key => i = j

\* C31 as stated: after mark(k, s) with s > 0, k is present with size s at
\* the most recently used position; protect(k, s) returns true iff k is
\* present, and after a true result k is at the most recently used
\* position; the entry sizes always add up to the used counter, which stays
\* within storage_hot_cache_size.
C31_HotSet ==
    /\ (hres.op = "mark" /\ hres.size > 0)
          => AtFront(hset, hres.key, hres.size)
    /\ hres.op = "protect" => (hres.ok <=> hres.had)
    /\ (hres.op = "protect" /\ hres.ok)
          => (Len(hset.order) > 0 /\ hset.order[1].key = hres.key)
    /\ HotAccounted

\* C31 amended: the same for sizes that fit, 0 < s <= storage_hot_cache_size
\* (a larger entry is evicted by the call that records it), and protect
\* returns true iff k is present and s > 0.
C31_HotSetFitting ==
    /\ (hres.op = "mark" /\ hres.size > 0 /\ hres.size <= HotCap)
          => AtFront(hset, hres.key, hres.size)
    /\ hres.op = "protect" => (hres.ok <=> (hres.had /\ hres.size > 0))
    /\ (hres.op = "protect" /\ hres.ok /\ hres.size <= HotCap)
          => AtFront(hset, hres.key, hres.size)
    /\ HotAccounted

\* A true protect of a present entry with the largest size that fits: the
\* entry is at the front and is the only one left.
C31_Witness ==
    /\ hres.op = "protect" /\ hres.ok
    /\ hres.size = HotCap
    /\ AtFront(hset, hres.key, HotCap)
    /\ Len(hset.order) = 1

\* ---- claims on SpecKey ----

BothResolved == \A s \in KeySlots : kout[s].status = 200

\* C38: two requests that resolve to the same cache path have the same
\* geometry, the same source file and the same output format, under every
\* rewrite chain and with the double-extension fallback.
C38_CachePathIsTheKey ==
    (BothResolved /\ kout[1].cachePath = kout[2].cachePath) =>
       /\ kout[1].width = kout[2].width
       /\ kout[1].height = kout[2].height
       /\ kout[1].source = kout[2].source
       /\ kout[1].format = kout[2].format

\* C39: every cache path a request resolves to, and so every file
\* Manager.Write is given to write under cache_dir, has an extension of the
\* sweeper's allowed set, for each of the accepted request extensions
\* .jpg, .jpeg, .png, .webp and .avif; only then does a sweep visit, and
\* remove when expired, orphaned or outdated, every variant.
C39_WrittenFilesAreSwept ==
    \A s \in KeySlots :
       kout[s].status = 200 => isAllowedCacheExt(kout[s].cacheRel)

====
